---- MODULE Spec2Model ----
(***************************************************************************)
(* A model of the nanoclaw orchestration core:                             *)
(*   - GroupQueue (src/src/nanoclaw/group_queue.py): per-group admission   *)
(*     control, global concurrency cap, retry with exponential backoff;    *)
(*   - the IPC bus (src/src/nanoclaw/ipc.py): per-mailbox authorization of *)
(*     job-store requests.                                                 *)
(* The asyncio event loop is modelled explicitly: asyncio.create_task puts *)
(* a coroutine on the loop's FIFO ready queue; its body runs only when the *)
(* loop reaches it, and it is suspended at every await of real I/O.        *)
(***************************************************************************)
EXTENDS Integers, Sequences, FiniteSets, Bags, TLC

\* ------------------------------------------------------------------------
\* Bounds of the model
\* ------------------------------------------------------------------------
\* chat ids the queue holds a state for
NumGroups == 3
\* groups 1..NumBusy are the groups the callers enqueue work for in the
\* specifications with bursts of calls
NumBusy == 2
\* job ids the callers pass to enqueue_task
NumTaskIds == 2
\* most units of work (created, running, queued, flagged, or waiting for a
\* retry timer) the environment lets exist at once
MaxWork == 3
\* the same bound in the retry specification
MaxRetryWork == 2
\* the same bound in the specification of the registered containers
MaxWorkersWork == 2
\* the same bound in the specification of the waiting list
MaxWaitingWork == 5
\* the same bound in the specification with fairness
MaxFairWork == 3
\* the configured cap on concurrently running containers
MAX_CONCURRENT_CONTAINERS == 1
\* groups 1..NumFlaky are the groups of the retry specification, in which
\* work may fail (a message callback returning false or raising, a task
\* raising)
NumFlaky == 1
\* a message callback fails only while fewer than MaxTimers retries are
\* pending
MaxTimers == 1
\* most enqueue calls a caller makes between two of its suspension points
MaxBurst == 2
\* job ids the job store can hold
MaxJobs == 2
\* jobs in the store at one time while the scheduler runs
MaxLiveJobs == 1
\* runs that are handed to the queue and not yet finished
MaxRuns == 2
\* times the clock is read at a later time
MaxTicks == 2
\* follow-up files that lie unread in the input mailboxes
MaxFiles == 2
\* extra mounts in the configuration of one group
MaxMounts == 2
\* lines a worker writes to its stdout
MaxStreamLen == 6
\* lines a worker writes to its stdout in the specification of the supervisor
MaxRunStreamLen == 3
\* coroutines of one poll loop function alive at the same time
MaxLoops == 2
\* request files written to the mailbox
MaxIpcFiles == 2
\* the result blocks one worker writes
MaxBlocks == 2
\* the timeout of a run (config.CONTAINER_TIMEOUT, from the environment), in
\* units of the clock
CONTAINER_TIMEOUT == 2
\* the wait for the exit of the process (10 seconds), in units of the clock
PROCESS_WAIT == 1
\* the clock stops at MaxClock
MaxClock == 5
\* the output-size maximum (config.CONTAINER_MAX_OUTPUT_SIZE, from the
\* environment), in characters
CONTAINER_MAX_OUTPUT_SIZE == 3

\* ------------------------------------------------------------------------
\* Program constants
\* ------------------------------------------------------------------------
MAX_RETRIES == 5
BASE_RETRY_SECONDS == 5

Groups == 1..NumGroups
TaskIds == 1..NumTaskIds
\* the task id slot of a message-check run (it carries no job)
NoTask == 0

\* Python's None where the other values are texts: a text field that is
\* absent from a request, the folder of a chat that is not registered, a
\* process handle, container name or group folder that is not set
None == "None"

\* the folder of the group registered for each chat id (group.folder), which
\* names its mailbox data/ipc/<folder>
GroupFolder == <<"main", "a", "b", "c">>
GroupFolders == {GroupFolder[g] : g \in Groups}

VARIABLES
    \* _GroupState fields, one per chat id (states are created lazily with
    \* these defaults, so a total function models the dict)
    active, pending_messages, pending_tasks, retry_count,
    process, container_name, group_folder,
    \* GroupQueue fields
    active_count, waiting, process_messages_fn, shutting_down,
    \* the asyncio event loop: the FIFO of handles ready to run, the number
    \* of them the current loop iteration still has to run, the runs
    \* suspended in their work callback, and the _retry coroutines sleeping
    \* in asyncio.sleep(delay)
    ready, ntodo, running, timers,
    \* the most recent error-level line the queue wrote to the log
    last_error,
    \* the follow-up files in the input mailbox data/ipc/<folder>/input of each
    \* folder, and what send_message returned to the message loop in the step
    \* just run ("none" when the step did not call it)
    input_files, send_result,
    \* the job store (table scheduled_tasks), the group registry, and the
    \* chat the send callback was last called for by the IPC watcher
    scheduled_tasks, registered_groups, ipc_sent,
    \* the clock (time.time(), in ms), the number of times it has moved, the
    \* _run_task coroutines handed to the queue and not yet finished, the rows
    \* of table task_run_logs, and the configured timezone (config.TIMEZONE)
    now, ticks, task_runs, task_run_logs, TIMEZONE,
    \* a worker's stdout and _read_container_output reading it: the lines, the
    \* number of lines read, the locals buffer, in_output, total_size and
    \* final, the envelopes passed to on_output, and how far the call has got
    stream, nread, buffer, in_output, total_size, final, forwarded, reader,
    \* mount_security.py: the allowlist file on disk, the module globals
    \* _cached_allowlist and _allowlist_load_error, and the values returned
    \* by the last validate_mount and validate_additional_mounts
    allowlist_file, cached_allowlist, allowlist_load_error, mount_result, validated,
    \* run_container_agent: how far the call has got, the worker process, whether
    \* proc.wait() has returned, the local final_output, the time since the call
    \* (in timeout units) and the time at which the wait_for in force ends
    run_pc, proc, proc_waited, final_output, clock, deadline,
    \* the flags _scheduler_running and _ipc_watcher_running, the coroutines
    \* of start_scheduler_loop that are in their loop, the coroutines of
    \* start_ipc_watcher with where each one is, the request files of a
    \* mailbox, and how many times each file has been read for processing
    scheduler_running, scheduler_loops, ipc_watcher_running, ipc_loops,
    ipc_files, ipc_processed

qvars == <<active, pending_messages, pending_tasks, retry_count,
           process, container_name, group_folder, input_files, send_result,
           active_count, waiting, process_messages_fn, shutting_down,
           ready, ntodo, running, timers, last_error>>

ivars == <<scheduled_tasks, registered_groups, ipc_sent>>

svars == <<now, ticks, task_runs, task_run_logs, TIMEZONE>>

rvars == <<stream, nread, buffer, in_output, total_size, final, forwarded, reader>>

mvars ==
    <<allowlist_file, cached_allowlist, allowlist_load_error, mount_result, validated>>

cvars == <<run_pc, proc, proc_waited, final_output, clock, deadline>>

lvars == <<scheduler_running, scheduler_loops, ipc_watcher_running, ipc_loops,
           ipc_files, ipc_processed>>

vars == <<qvars, ivars, svars, rvars, mvars, cvars, lvars>>

\* ------------------------------------------------------------------------
\* Helpers
\* ------------------------------------------------------------------------
Range(s) == {s[i] : i \in 1..Len(s)}

\* the least element of a set of numbers
Min(S) == CHOOSE x \in S : \A y \in S : x <= y

RECURSIVE Pow2(_)
Pow2(n) == IF n <= 0 THEN 1 ELSE 2 * Pow2(n - 1)

RECURSIVE SumOver(_, _)
SumOver(f, S) ==
    IF S = {} THEN 0
    ELSE LET x == CHOOSE y \in S : TRUE IN f[x] + SumOver(f, S \ {x})

Count(s, P(_)) == Cardinality({i \in 1..Len(s) : P(s[i])})

\* ------------------------------------------------------------------------
\* GroupQueue: the queue's state as one record, so that the synchronous
\* call chains of the code (finally -> _drain_group -> _drain_waiting ->
\* create_task) compose as functions
\* ------------------------------------------------------------------------
QState ==
    [active |-> active, pending_messages |-> pending_messages,
     pending_tasks |-> pending_tasks, retry_count |-> retry_count,
     process |-> process, container_name |-> container_name,
     group_folder |-> group_folder, input_files |-> input_files,
     send_result |-> "none",
     active_count |-> active_count, waiting |-> waiting,
     process_messages_fn |-> process_messages_fn,
     shutting_down |-> shutting_down,
     ready |-> ready, ntodo |-> ntodo, running |-> running,
     timers |-> timers, last_error |-> last_error]

SetQState(s) ==
    /\ active' = s.active
    /\ pending_messages' = s.pending_messages
    /\ pending_tasks' = s.pending_tasks
    /\ retry_count' = s.retry_count
    /\ process' = s.process
    /\ container_name' = s.container_name
    /\ group_folder' = s.group_folder
    /\ input_files' = s.input_files
    /\ send_result' = s.send_result
    /\ active_count' = s.active_count
    /\ waiting' = s.waiting
    /\ process_messages_fn' = s.process_messages_fn
    /\ shutting_down' = s.shutting_down
    /\ ready' = s.ready
    /\ ntodo' = s.ntodo
    /\ running' = s.running
    /\ timers' = s.timers
    /\ last_error' = s.last_error

\* the first step of a coroutine made by create_task(_run_for_group(..)) or
\* create_task(_run_task(..))
StartHandle(kind, g, id) == [h |-> "start", kind |-> kind, chat_id |-> g, id |-> id, worker |-> None]
\* the wake-up of a run whose work callback has finished
ResumeHandle(run) == [h |-> "resume", kind |-> run.kind, chat_id |-> run.chat_id, id |-> run.id, worker |-> run.worker]
\* the wake-up of a _retry coroutine whose sleep has ended
RetryHandle(t) == [h |-> "retry", kind |-> "-", chat_id |-> t.chat_id, id |-> NoTask, worker |-> None]
\* the wake-up of a caller of the queue (message loop, scheduler, signal)
CallHandle == [h |-> "call", kind |-> "-", chat_id |-> 0, id |-> NoTask, worker |-> None]

\* a run suspended in its work callback; worker is the folder of the mailbox
\* of the container it has registered, None while it has registered none
Run(kind, g, id) == [kind |-> kind, chat_id |-> g, id |-> id, worker |-> None]
Timer(g, delay) == [chat_id |-> g, delay |-> delay]

\* asyncio.create_task(coro): the coroutine's first step is appended to the
\* loop's ready queue; none of its body has run when create_task returns
create_task(s, kind, g, id) ==
    [s EXCEPT !.ready = Append(@, StartHandle(kind, g, id))]

\* enqueue_message_check(chat_id)
enqueue_message_check(s, g) ==
    IF s.shutting_down THEN s
    ELSE IF s.active[g] THEN [s EXCEPT !.pending_messages[g] = TRUE]
    ELSE IF s.active_count >= MAX_CONCURRENT_CONTAINERS
         THEN [s EXCEPT !.pending_messages[g] = TRUE,
                        !.waiting = IF g \in Range(@) THEN @ ELSE Append(@, g)]
    ELSE create_task(s, "messages", g, NoTask)

\* (variant: no check for a job that is already queued)
enqueue_task_without_dedupe(s, g, id) ==
    IF s.shutting_down THEN s
    ELSE IF s.active[g] THEN [s EXCEPT !.pending_tasks[g] = Append(@, id)]
    ELSE IF s.active_count >= MAX_CONCURRENT_CONTAINERS
         THEN [s EXCEPT !.pending_tasks[g] = Append(@, id),
                        !.waiting = IF g \in Range(@) THEN @ ELSE Append(@, g)]
    ELSE create_task(s, "task", g, id)

\* enqueue_task(chat_id, task_id, fn)
enqueue_task(s, g, id) ==
    IF s.shutting_down THEN s
    ELSE IF \E i \in 1..Len(s.pending_tasks[g]) : s.pending_tasks[g][i] = id
         THEN s
    ELSE IF s.active[g] THEN [s EXCEPT !.pending_tasks[g] = Append(@, id)]
    ELSE IF s.active_count >= MAX_CONCURRENT_CONTAINERS
         THEN [s EXCEPT !.pending_tasks[g] = Append(@, id),
                        !.waiting = IF g \in Range(@) THEN @ ELSE Append(@, g)]
    ELSE create_task(s, "task", g, id)

\* (variant: the exponent is the retry count itself)
retry_delay_exponent_off_by_one(retry_count_) == BASE_RETRY_SECONDS * Pow2(retry_count_)

\* the delay _schedule_retry computes for the retry_count-th failure
retry_delay(retry_count_) == BASE_RETRY_SECONDS * Pow2(retry_count_ - 1)

\* _schedule_retry(chat_id, state)
schedule_retry(s, g) ==
    LET n == s.retry_count[g] + 1 IN
    IF n > MAX_RETRIES
    THEN [s EXCEPT !.retry_count[g] = 0, !.last_error = "max_retries"]
    ELSE [s EXCEPT !.retry_count[g] = n,
                   !.timers = @ (+) SetToBag({Timer(g, retry_delay(n))})]

\* _drain_waiting(): the while loop
RECURSIVE drain_waiting(_)
drain_waiting(s) ==
    IF s.waiting # <<>> /\ s.active_count < MAX_CONCURRENT_CONTAINERS
    THEN LET next_id == Head(s.waiting)
             s1 == [s EXCEPT !.waiting = Tail(@)]
         IN IF s1.pending_tasks[next_id] # <<>>
            THEN drain_waiting(
                    create_task([s1 EXCEPT !.pending_tasks[next_id] = Tail(@)],
                                "task", next_id, Head(s1.pending_tasks[next_id])))
            ELSE IF s1.pending_messages[next_id]
            THEN drain_waiting(create_task(s1, "messages", next_id, NoTask))
            ELSE drain_waiting(s1)
    ELSE s

\* (variant: the pending message check is served before the queued tasks)
drain_group_messages_first(s, g) ==
    IF s.shutting_down THEN s
    ELSE IF s.pending_messages[g] THEN create_task(s, "messages", g, NoTask)
    ELSE IF s.pending_tasks[g] # <<>>
         THEN create_task([s EXCEPT !.pending_tasks[g] = Tail(@)],
                          "task", g, Head(s.pending_tasks[g]))
    ELSE drain_waiting(s)

\* (variant: the drain step does not look at the shutdown flag)
drain_group_ignoring_shutdown(s, g) ==
    IF s.pending_tasks[g] # <<>>
    THEN create_task([s EXCEPT !.pending_tasks[g] = Tail(@)],
                     "task", g, Head(s.pending_tasks[g]))
    ELSE IF s.pending_messages[g] THEN create_task(s, "messages", g, NoTask)
    ELSE drain_waiting(s)

\* _drain_group(chat_id)
drain_group(s, g) ==
    IF s.shutting_down THEN s
    ELSE IF s.pending_tasks[g] # <<>>
         THEN create_task([s EXCEPT !.pending_tasks[g] = Tail(@)],
                          "task", g, Head(s.pending_tasks[g]))
    ELSE IF s.pending_messages[g] THEN create_task(s, "messages", g, NoTask)
    ELSE drain_waiting(s)

\* (variant: the finally block leaves the group folder set)
run_finally_keeping_group_folder(s, g) ==
    drain_group([s EXCEPT !.active[g] = FALSE, !.process[g] = None,
                          !.container_name[g] = None,
                          !.active_count = @ - 1], g)

\* the finally block shared by _run_for_group and _run_task
run_finally(s, g) ==
    drain_group([s EXCEPT !.active[g] = FALSE, !.process[g] = None,
                          !.container_name[g] = None, !.group_folder[g] = None,
                          !.active_count = @ - 1], g)

\* _run_for_group up to its await: the coroutine begins
run_for_group_begin(s, g) ==
    [s EXCEPT !.active[g] = TRUE, !.pending_messages[g] = FALSE,
              !.active_count = @ + 1]

\* _run_for_group after the await; outcome is what the callback did:
\* "true", "false", "raise", or "none" when no callback is installed
run_for_group_end(s, g, outcome) ==
    run_finally(
        CASE outcome = "true" -> [s EXCEPT !.retry_count[g] = 0]
          [] outcome = "false" -> schedule_retry(s, g)
          [] outcome = "raise" ->
                schedule_retry([s EXCEPT !.last_error = "process_error"], g)
          [] OTHER -> s,
        g)

\* _run_task up to its await
run_task_begin(s, g) ==
    [s EXCEPT !.active[g] = TRUE, !.active_count = @ + 1]

\* (variant: a task that raises is retried like a failed message check)
run_task_end_retrying(s, g, outcome) ==
    run_finally(IF outcome = "raise"
                THEN schedule_retry([s EXCEPT !.last_error = "task_error"], g)
                ELSE s,
                g)

\* _run_task after the await; an exception is logged and swallowed
run_task_end(s, g, outcome) ==
    run_finally(IF outcome = "raise" THEN [s EXCEPT !.last_error = "task_error"]
                ELSE s,
                g)

\* a run from its await to its end
run_end(s, kind, g, outcome) ==
    IF kind = "messages" THEN run_for_group_end(s, g, outcome)
    ELSE run_task_end(s, g, outcome)

\* a run up to its await
run_begin(s, kind, g) ==
    IF kind = "messages" THEN run_for_group_begin(s, g)
    ELSE run_task_begin(s, g)

\* shutdown(): only the flag changes; containers are detached, not killed
shutdown(s) == [s EXCEPT !.shutting_down = TRUE]

\* register_process(chat_id, proc, container_name, group_folder)
register_process(s, g, proc_, name, folder) ==
    [s EXCEPT !.process[g] = proc_, !.container_name[g] = name,
              !.group_folder[g] = IF folder # None THEN folder ELSE @]

\* send_message(chat_id, text); io_ok is whether creating the directory,
\* writing the temporary file and renaming it all succeed. A failure leaves
\* no follow-up file (at most a .json.tmp file, which the worker never reads)
send_message(s, g, io_ok) ==
    IF ~s.active[g] \/ s.group_folder[g] = None
    THEN [s EXCEPT !.send_result = "false"]
    ELSE IF io_ok
    THEN [s EXCEPT !.input_files[s.group_folder[g]] = @ + 1,
                   !.send_result = "true"]
    ELSE [s EXCEPT !.send_result = "false"]

\* the message loop's dispatch of new messages of one chat: a follow-up to
\* the running container, or else a message check
send_or_enqueue(s, g, io_ok) ==
    LET sent == send_message(s, g, io_ok) IN
    IF sent.send_result = "true" THEN sent ELSE enqueue_message_check(sent, g)

\* ------------------------------------------------------------------------
\* The environment of the queue
\* ------------------------------------------------------------------------
\* the enqueue calls a caller can make for the groups G
Calls(G) ==
    {[op |-> "message", chat_id |-> g, id |-> NoTask] : g \in G}
    \cup {[op |-> "task", chat_id |-> g, id |-> id] : g \in G, id \in TaskIds}

\* the sequences of at most n calls a caller makes without suspending in
\* between
Bursts(G, n) == UNION {[1..k -> Calls(G)] : k \in 1..n}

\* the single calls the message loop can make for the groups G
MessageChecks(G) == {<<[op |-> "message", chat_id |-> g, id |-> NoTask]>> : g \in G}

apply_call(s, c) ==
    IF c.op = "message" THEN enqueue_message_check(s, c.chat_id)
    ELSE enqueue_task(s, c.chat_id, c.id)

RECURSIVE apply_calls(_, _)
apply_calls(s, calls) ==
    IF calls = <<>> THEN s
    ELSE apply_calls(apply_call(s, Head(calls)), Tail(calls))

\* what the work of a run may do when it ends
Outcomes(kind) ==
    IF kind = "messages" THEN {"true", "false", "raise"} ELSE {"ok", "raise"}
Succeeds == {"true", "ok"}
AnyOutcome == {"true", "false", "raise", "ok"}

IsStart(hd) == hd.h = "start"
IsResume(hd) == hd.h = "resume"
IsRetry(hd) == hd.h = "retry"
IsCall(hd) == hd.h = "call"

\* retries that are pending: sleeping, or woken and not yet run
PendingRetries(s) == BagCardinality(s.timers) + Count(s.ready, IsRetry)

\* units of work that exist in state s
Work(s) ==
    Count(s.ready, IsStart) + Count(s.ready, IsResume)
    + BagCardinality(s.running) + PendingRetries(s)
    + SumOver([g \in Groups |-> Len(s.pending_tasks[g])], Groups)
    + Cardinality({g \in Groups : s.pending_messages[g]})

\* the environment lets a message callback fail only while few retries are
\* pending and the work that exists is within the bound
MayFail(s, outcome, w) ==
    outcome \in {"false", "raise"} =>
        PendingRetries(s) < MaxTimers /\ Work(s) <= w

\* ------------------------------------------------------------------------
\* Actions of the queue
\* ------------------------------------------------------------------------
\* the queue as main() has set it up: constructed, and the message callback
\* installed before anything is enqueued
QInit ==
    /\ active = [g \in Groups |-> FALSE]
    /\ pending_messages = [g \in Groups |-> FALSE]
    /\ pending_tasks = [g \in Groups |-> <<>>]
    /\ retry_count = [g \in Groups |-> 0]
    /\ process = [g \in Groups |-> None]
    /\ container_name = [g \in Groups |-> None]
    /\ group_folder = [g \in Groups |-> None]
    /\ input_files = [f \in GroupFolders |-> 0]
    /\ send_result = "none"
    /\ active_count = 0
    /\ waiting = <<>>
    /\ process_messages_fn = TRUE
    /\ shutting_down = FALSE
    /\ ready = <<>>
    /\ ntodo = 0
    /\ running = EmptyBag
    /\ timers = EmptyBag
    /\ last_error = "none"

\* --- the loop waits for events (no handle of the iteration is left) ------

\* the work callback of a suspended run finishes: the run is woken
CallbackDone(run) ==
    /\ ntodo = 0
    /\ BagIn(run, running)
    /\ SetQState([QState EXCEPT !.running = @ (-) SetToBag({run}),
                                !.ready = Append(@, ResumeHandle(run))])

\* the sleep of a _retry coroutine ends
TimerExpires(t) ==
    /\ ntodo = 0
    /\ BagIn(t, timers)
    /\ SetQState([QState EXCEPT !.timers = @ (-) SetToBag({t}),
                                !.ready = Append(@, RetryHandle(t))])

\* a caller of the queue becomes ready to run
CallerWakes ==
    /\ ntodo = 0
    /\ Count(ready, IsCall) = 0
    /\ SetQState([QState EXCEPT !.ready = Append(@, CallHandle)])

\* the loop begins an iteration: it will run the handles that are ready now
BeginIteration ==
    /\ ntodo = 0
    /\ ready # <<>>
    /\ SetQState([QState EXCEPT !.ntodo = Len(ready)])

\* --- the loop runs the oldest ready handle -------------------------------
Popped == [QState EXCEPT !.ready = Tail(@), !.ntodo = @ - 1]

\* a run begins and suspends in its work callback
RunStartSuspend ==
    /\ ntodo > 0
    /\ IsStart(Head(ready))
    /\ LET hd == Head(ready) IN
       /\ hd.kind = "messages" => process_messages_fn
       /\ SetQState([run_begin(Popped, hd.kind, hd.chat_id) EXCEPT
                        !.running = @ (+) SetToBag({Run(hd.kind, hd.chat_id, hd.id)})])

\* a run begins and its work finishes without suspending (or there is no
\* callback): the whole coroutine runs in one step
RunStartToEnd(outcome, w) ==
    /\ ntodo > 0
    /\ IsStart(Head(ready))
    /\ LET hd == Head(ready) IN
       /\ IF hd.kind = "messages" /\ ~process_messages_fn
          THEN outcome = "none"
          ELSE outcome \in Outcomes(hd.kind)
       /\ hd.kind = "messages" => MayFail(QState, outcome, w)
       /\ SetQState(run_end(run_begin(Popped, hd.kind, hd.chat_id),
                            hd.kind, hd.chat_id, outcome))

\* a suspended run resumes with what its work callback did
RunResume(outcome, w) ==
    /\ ntodo > 0
    /\ IsResume(Head(ready))
    /\ LET hd == Head(ready) IN
       /\ outcome \in Outcomes(hd.kind)
       /\ hd.kind = "messages" => MayFail(QState, outcome, w)
       /\ SetQState(run_end(Popped, hd.kind, hd.chat_id, outcome))

\* _retry after its sleep
RunRetry ==
    /\ ntodo > 0
    /\ IsRetry(Head(ready))
    /\ SetQState(IF shutting_down THEN Popped
                 ELSE enqueue_message_check(Popped, Head(ready).chat_id))

\* a caller makes one of the bursts of enqueue calls
RunCallEnqueue(bursts, w) ==
    /\ ntodo > 0
    /\ IsCall(Head(ready))
    /\ \E calls \in bursts :
          /\ Work(QState) + Len(calls) <= w
          /\ SetQState(apply_calls(Popped, calls))

\* the message loop finds new messages for a chat while fewer than MaxFiles
\* follow-up files lie in the mailboxes
RunCallSendMessage(G, w) ==
    /\ ntodo > 0
    /\ IsCall(Head(ready))
    /\ \E g \in G, io_ok \in BOOLEAN :
          /\ Work(QState) < w
          /\ SumOver(input_files, GroupFolders) < MaxFiles
          /\ SetQState(send_or_enqueue(Popped, g, io_ok))

\* the work callback of a suspended run has spawned its container and
\* registers it (run_container_agent's on_process)
RegisterProcess(run) ==
    /\ ntodo = 0
    /\ BagIn(run, running)
    /\ run.worker = None
    /\ LET folder == GroupFolder[run.chat_id] IN
       SetQState([register_process(QState, run.chat_id, "proc", "name", folder) EXCEPT
                     !.running = (@ (-) SetToBag({run}))
                                 (+) SetToBag({[run EXCEPT !.worker = folder]})])

\* the worker reads its input mailbox: it takes every follow-up file
\* (agent-runner main.py, drain of IPC_INPUT_DIR)
WorkerReadsInput(f) ==
    /\ ntodo = 0
    /\ input_files[f] > 0
    /\ SetQState([QState EXCEPT !.input_files[f] = 0])

\* the caller (signal handler) shuts the queue down
RunCallShutdown ==
    /\ ntodo > 0
    /\ IsCall(Head(ready))
    /\ ~shutting_down
    /\ SetQState(shutdown(Popped))

\* the steps of the event loop, with work that ends as one of outs and
\* callers that make one of the bursts while less than w work exists
LoopNext(outs, bursts, w) ==
    \/ \E run \in BagToSet(running) : CallbackDone(run)
    \/ CallerWakes
    \/ BeginIteration
    \/ RunStartSuspend
    \/ \E o \in outs \cup {"none"} : RunStartToEnd(o, w)
    \/ \E o \in outs : RunResume(o, w)
    \/ RunCallEnqueue(bursts, w)

\* ------------------------------------------------------------------------
\* The IPC bus (ipc.py): requests on the job store and the group registry
\* ------------------------------------------------------------------------
MAIN_GROUP_FOLDER == "main"

\* mailbox directories under data/ipc, chats, job ids
Folders == {"main", "a", "b"}
ChatIds == {"c_main", "c_a", "c_b"}
JobIds == 1..MaxJobs
\* an absent taskId; the id argument when the store has no room for a job
NoId == 0
\* a row of the job store carries the columns the authorization reads and
\* the schedule kind and status (prompt, schedule value, context mode and the
\* run times are left out); this is the row of a job id that is not in the store
NoJob == [group_folder |-> None, chat_id |-> None, schedule_type |-> None,
          schedule_value |-> None, next_run |-> -1, status |-> "absent"]

\* times are in ms since 2025-01-01T00:00:00Z; a next_run that is NULL
NoTime == -1
MinuteMs == 60000
HourMs == 60 * MinuteMs
DayMs == 24 * HourMs
\* the clock when the program starts: 2025-01-01T10:00:00Z
StartTime == 10 * HourMs

\* schedule_type / schedule_value pairs of a request
ScheduleSpecs ==
    {<<"cron", "0 9 * * *">>, <<"cron", "bad">>,
     <<"interval", "3600000">>, <<"interval", "0">>, <<"interval", "-5">>,
     <<"interval", "abc">>,
     <<"once", "2025-01-01T11:00:00">>, <<"once", "not-a-date">>,
     <<"weekly", "mon">>, <<None, None>>}

\* croniter(schedule_value) accepts the expression
cron_valid(v) == v = "0 9 * * *"
\* int(schedule_value) raises ValueError
int_raises(v) == v \notin {"3600000", "0", "-5"}
\* int(schedule_value)
int_of(v) ==
    CASE v = "3600000" -> 3600000
      [] v = "0" -> 0
      [] v = "-5" -> -5
\* datetime.fromisoformat(schedule_value) accepts the timestamp
iso_valid(v) == v = "2025-01-01T11:00:00"
\* the time a stored timestamp stands for when get_due_tasks compares it
\* with the clock
iso_of(v) == CASE v = "2025-01-01T11:00:00" -> 11 * HourMs

\* the minute and hour fields of a five-field expression croniter accepts
cron_fields(v) == CASE v = "0 9 * * *" -> [minute |-> 0, hour |-> 9]

\* the next time after t whose wall clock, offset ms ahead of UTC, reads the
\* hour and minute of the expression
cron_next_at_offset(v, t, offset) ==
    LET local == t + offset
        today == (local \div DayMs) * DayMs
                    + cron_fields(v).hour * HourMs + cron_fields(v).minute * MinuteMs
        next == IF today > local THEN today ELSE today + DayMs IN
    next - offset

\* croniter(schedule_value).get_next(float): croniter starts from time.time()
\* and reads the epoch value as UTC
cron_get_next(v, t) == cron_next_at_offset(v, t, 0)

\* a request file's content; the last two fields are the identity a worker
\* writes into the body
Request(type, target, taskId, prompt, sched, chatId, name, folder, trigger) ==
    [type |-> type, targetChatId |-> target, taskId |-> taskId,
     prompt |-> prompt, schedule_type |-> sched[1], schedule_value |-> sched[2],
     chatId |-> chatId, name |-> name, folder |-> folder, trigger |-> trigger,
     text |-> None, isMain |-> None, groupFolder |-> None]

\* schedule_task files: every schedule for group a's chat, one schedule for
\* every target, and one request without a prompt
ScheduleRequests ==
    {Request("schedule_task", t, NoId, p, sc, None, None, None, None) :
        t \in {"c_a"}, p \in {"prompt"}, sc \in ScheduleSpecs}
    \cup {Request("schedule_task", t, NoId, p, sc, None, None, None, None) :
        t \in ChatIds \cup {None}, p \in {"prompt"},
        sc \in {<<"interval", "3600000">>}}
    \cup {Request("schedule_task", "c_a", NoId, None, <<"cron", "0 9 * * *">>,
                  None, None, None, None)}

JobRequests ==
    {Request(ty, None, id, None, <<None, None>>, None, None, None, None) :
        ty \in {"pause_task", "resume_task", "cancel_task"},
        id \in JobIds \cup {NoId}}

RegisterRequests ==
    {Request("register_group", None, NoId, None, <<None, None>>, c, "name", f, tr) :
        c \in {"c_b", None}, f \in {"b", None}, tr \in {"@Andy", None}}
    \cup {Request("register_group", None, NoId, None, <<None, None>>,
                  "c_b", None, "b", "@Andy")}

\* register_group files that would move a chat to another folder
RegisterMoves ==
    {Request("register_group", None, NoId, None, <<None, None>>, c, "name", f, "@Andy") :
        c \in ChatIds, f \in Folders}

\* the files of a messages directory
MessageRequests ==
    {[Request(ty, None, NoId, None, <<None, None>>, c, None, None, None)
        EXCEPT !.text = tx] :
        ty \in {"message"}, c \in ChatIds \cup {None}, tx \in {"hello"}}
    \cup {Request(ty, None, NoId, None, <<None, None>>, "c_a", None, None, None) :
            ty \in {"message", "bogus"}}

OtherRequests ==
    {Request(ty, None, NoId, None, <<None, None>>, None, None, None, None) :
        ty \in {"refresh_groups", "bogus"}}

\* the files of a tasks directory
Requests == ScheduleRequests \cup JobRequests \cup RegisterRequests \cup OtherRequests

\* the identity fields a body can carry (isMain, groupFolder / createdBy)
Identities == {<<m, f>> : m \in {"true", "false"}, f \in Folders}

WithIdentity(d, ident) == [d EXCEPT !.isMain = ident[1], !.groupFolder = ident[2]]

\* a line of the log
Log(event, source_group) == [event |-> event, source_group |-> source_group]

\* the state the watcher reads and writes, and what handling one file does
\* besides: the line it logs (its decision), whether it re-synced the group
\* metadata, and the folder it wrote a groups snapshot for
IState ==
    [tasks |-> scheduled_tasks, groups |-> registered_groups, sent |-> ipc_sent,
     log |-> Log("none", None), synced |-> FALSE, snapshot |-> None, now |-> now]

SetIState(s) ==
    /\ scheduled_tasks' = s.tasks
    /\ registered_groups' = s.groups
    /\ ipc_sent' = s.sent

logged(s, event, source_group) == [s EXCEPT !.log = Log(event, source_group)]

\* db.get_task_by_id
get_task_by_id(s, id) == IF id \in JobIds THEN s.tasks[id] ELSE NoJob

\* db.create_task
db_create_task(s, id, job) ==
    [s EXCEPT !.tasks = [i \in JobIds |-> IF i = id THEN job ELSE @[i]]]

\* db.update_task(task_id, status=...)
db_update_task(s, id, status) ==
    [s EXCEPT !.tasks = [i \in JobIds |->
        IF i = id /\ @[i] # NoJob THEN [@[i] EXCEPT !.status = status] ELSE @[i]]]

\* db.delete_task
db_delete_task(s, id) ==
    [s EXCEPT !.tasks = [i \in JobIds |-> IF i = id THEN NoJob ELSE @[i]]]

\* (variant: any mailbox may schedule for any registered group)
schedule_authorized_for_any_source(target_folder, source_group, is_main) == TRUE

\* the authorization test of schedule_task
schedule_authorized(target_folder, source_group, is_main) ==
    ~(~is_main /\ target_folder # source_group)

\* (variant: the job's folder is not compared with the source mailbox)
task_authorized_for_any_source(task, source_group, is_main) == task # NoJob

\* the authorization test of pause_task, resume_task and cancel_task
task_authorized(task, source_group, is_main) ==
    task # NoJob /\ (is_main \/ task.group_folder = source_group)

\* the next_run schedule_task computes for a schedule that passed the check
first_next_run(schedule_type, schedule_value, t) ==
    CASE schedule_type = "cron" -> cron_get_next(schedule_value, t)
      [] schedule_type = "interval" -> t + int_of(schedule_value)
      [] schedule_type = "once" -> iso_of(schedule_value)
      [] OTHER -> NoTime

\* the schedule validation of schedule_task: "ok", "rejected" (the request
\* is dropped) or "raise" (the exception leaves process_task_ipc)
schedule_check(schedule_type, schedule_value) ==
    CASE schedule_type = "cron" ->
            IF cron_valid(schedule_value) THEN "ok" ELSE "rejected"
      [] schedule_type = "interval" ->
            IF int_raises(schedule_value) THEN "raise"
            ELSE IF int_of(schedule_value) <= 0 THEN "rejected" ELSE "ok"
      [] schedule_type = "once" ->
            IF iso_valid(schedule_value) THEN "ok" ELSE "rejected"
      [] OTHER -> "ok"

\* process_task_ipc, type schedule_task; new_id is the fresh job id
ipc_schedule_task(s, data, source_group, is_main, new_id) ==
    IF data.prompt = None \/ data.schedule_type = None
       \/ data.schedule_value = None \/ data.targetChatId = None
    THEN s
    ELSE LET target_folder == s.groups[data.targetChatId] IN
    IF target_folder = None
    THEN logged(s, "target_not_registered", source_group)
    ELSE IF ~schedule_authorized(target_folder, source_group, is_main)
    THEN logged(s, "unauthorized_schedule_task", source_group)
    ELSE LET check == schedule_check(data.schedule_type, data.schedule_value) IN
    IF check = "rejected" THEN logged(s, "invalid_schedule", source_group)
    ELSE IF check = "raise" THEN logged(s, "error_processing", source_group)
    ELSE logged(db_create_task(s, new_id,
                    [group_folder |-> target_folder,
                     chat_id |-> data.targetChatId,
                     schedule_type |-> data.schedule_type,
                     schedule_value |-> data.schedule_value,
                     next_run |-> first_next_run(data.schedule_type,
                                                 data.schedule_value, s.now),
                     status |-> "active"]),
                "task_created", source_group)

\* process_task_ipc, types pause_task and resume_task
ipc_set_status(s, data, source_group, is_main, status, event) ==
    IF data.taskId = NoId THEN s
    ELSE IF task_authorized(get_task_by_id(s, data.taskId), source_group, is_main)
    THEN logged(db_update_task(s, data.taskId, status), event, source_group)
    ELSE logged(s, "unauthorized_" \o data.type, source_group)

\* process_task_ipc, type cancel_task
ipc_cancel_task(s, data, source_group, is_main) ==
    IF data.taskId = NoId THEN s
    ELSE IF task_authorized(get_task_by_id(s, data.taskId), source_group, is_main)
    THEN logged(db_delete_task(s, data.taskId), "task_cancelled", source_group)
    ELSE logged(s, "unauthorized_cancel_task", source_group)

\* process_task_ipc, type refresh_groups
ipc_refresh_groups(s, source_group, is_main) ==
    IF is_main
    THEN logged([s EXCEPT !.synced = TRUE, !.snapshot = source_group],
                "refresh_requested", source_group)
    ELSE logged(s, "unauthorized_refresh_groups", source_group)

\* (variant: the source mailbox is not looked at)
ipc_register_group_from_any_source(s, data, source_group, is_main) ==
    IF data.chatId # None /\ data.name # None /\ data.folder # None
       /\ data.trigger # None
    THEN logged([s EXCEPT !.groups[data.chatId] = data.folder],
                "group_registered", source_group)
    ELSE logged(s, "invalid_register_group", source_group)

\* process_task_ipc, type register_group
ipc_register_group(s, data, source_group, is_main) ==
    IF ~is_main THEN logged(s, "unauthorized_register_group", source_group)
    ELSE IF data.chatId # None /\ data.name # None /\ data.folder # None
            /\ data.trigger # None
    THEN logged([s EXCEPT !.groups[data.chatId] = data.folder],
                "group_registered", source_group)
    ELSE logged(s, "invalid_register_group", source_group)

\* process_task_ipc(data, source_group, is_main, deps)
process_task_ipc(s, data, source_group, is_main, new_id) ==
    CASE data.type = "schedule_task" ->
            ipc_schedule_task(s, data, source_group, is_main, new_id)
      [] data.type = "pause_task" ->
            ipc_set_status(s, data, source_group, is_main, "paused", "task_paused")
      [] data.type = "resume_task" ->
            ipc_set_status(s, data, source_group, is_main, "active", "task_resumed")
      [] data.type = "cancel_task" -> ipc_cancel_task(s, data, source_group, is_main)
      [] data.type = "refresh_groups" -> ipc_refresh_groups(s, source_group, is_main)
      [] data.type = "register_group" ->
            ipc_register_group(s, data, source_group, is_main)
      [] OTHER -> logged(s, "unknown_type", source_group)

\* (variant: is_main is taken from the request body when it carries one)
handle_task_file_trusting_body(s, source_group, data, new_id) ==
    process_task_ipc(s, data, source_group,
                     IF data.isMain = None THEN source_group = MAIN_GROUP_FOLDER
                     ELSE data.isMain = "true",
                     new_id)

\* _process_ipc_files for one file of <source_group>/tasks: the identity of
\* the request is the directory the file was read from
handle_task_file(s, source_group, data, new_id) ==
    process_task_ipc(s, data, source_group, source_group = MAIN_GROUP_FOLDER, new_id)

\* (variant: a non-main mailbox may send to any registered chat)
handle_message_file_to_any_registered(s, source_group, data) ==
    IF data.type = "message" /\ data.chatId # None /\ data.text # None
    THEN IF source_group = MAIN_GROUP_FOLDER \/ s.groups[data.chatId] # None
         THEN logged([s EXCEPT !.sent = data.chatId], "message_sent", source_group)
         ELSE logged(s, "unauthorized_message", source_group)
    ELSE s

\* _process_ipc_files for one file of <source_group>/messages
handle_message_file(s, source_group, data) ==
    IF data.type = "message" /\ data.chatId # None /\ data.text # None
    THEN IF source_group = MAIN_GROUP_FOLDER
            \/ (s.groups[data.chatId] # None /\ s.groups[data.chatId] = source_group)
         THEN logged([s EXCEPT !.sent = data.chatId], "message_sent", source_group)
         ELSE logged(s, "unauthorized_message", source_group)
    ELSE s

\* the ids a new job can get
FreeIds(s) == {i \in JobIds : s.tasks[i] = NoJob}
NewIds(s) == IF FreeIds(s) = {} THEN {NoId} ELSE FreeIds(s)

\* the identity a worker writes into its request files: every worker may
\* say it is main
WrittenIdentity == <<"true", "main">>

IInit ==
    /\ scheduled_tasks = [i \in JobIds |-> NoJob]
    /\ registered_groups = [c \in ChatIds |->
            CASE c = "c_main" -> "main" [] c = "c_a" -> "a" [] OTHER -> None]
    /\ ipc_sent = None

\* the scheduler has handed nothing to the queue yet
SInit ==
    /\ now = StartTime
    /\ ticks = 0
    /\ task_runs = {}
    /\ task_run_logs = {}

\* the timezones config.TIMEZONE is set to
TimeZones == {"UTC", "Asia/Tokyo"}

\* the watcher reads a request file from <source_group>/tasks and handles it
IpcTaskFile(source_group, data, new_id) ==
    /\ new_id \in NewIds(IState)
    /\ \A r \in task_runs : r.task.id # new_id
    /\ LET r == handle_task_file(IState, source_group, data, new_id) IN
       /\ new_id = NoId => r.log.event # "task_created"
       /\ SetIState(r)

\* the watcher reads a file from <source_group>/messages and handles it
IpcMessageFile(source_group, data) ==
    SetIState(handle_message_file(IState, source_group, data))

IpcNext ==
    \/ \E source_group \in Folders, d \in Requests, new_id \in JobIds \cup {NoId} :
            IpcTaskFile(source_group, WithIdentity(d, WrittenIdentity), new_id)
    \/ \E source_group \in Folders, d \in MessageRequests :
            IpcMessageFile(source_group, WithIdentity(d, WrittenIdentity))

\* ------------------------------------------------------------------------
\* The task scheduler (task_scheduler.py) on the job store
\* ------------------------------------------------------------------------
\* db.get_due_tasks
get_due_tasks(s) ==
    {i \in JobIds : /\ s.tasks[i].status = "active"
                    /\ s.tasks[i].next_run # NoTime
                    /\ s.tasks[i].next_run <= s.now}

\* db.update_task_after_run
update_task_after_run(tasks, id, next_run) ==
    [i \in JobIds |->
        IF i = id /\ tasks[i] # NoJob
        THEN [tasks[i] EXCEPT !.next_run = next_run,
                              !.status = IF next_run = NoTime THEN "completed" ELSE @]
        ELSE tasks[i]]

\* the ScheduledTask object the poll pass binds into the work callback
TaskObject(i) ==
    [id |-> i,
     group_folder |-> scheduled_tasks[i].group_folder,
     chat_id |-> scheduled_tasks[i].chat_id,
     schedule_type |-> scheduled_tasks[i].schedule_type,
     schedule_value |-> scheduled_tasks[i].schedule_value]

TaskRun(task, phase) == [task |-> task, phase |-> phase]

\* _run_task, "Calculate next run", at time t
next_run_after(task, t) ==
    CASE task.schedule_type = "cron" -> cron_get_next(task.schedule_value, t)
      [] task.schedule_type = "interval" -> t + int_of(task.schedule_value)
      [] OTHER -> NoTime

\* (variant: the jobs of the list are handed off without being re-read)
hand_off_without_recheck(s, due_tasks) == due_tasks

\* the for loop of the poll pass over the list due_tasks: the jobs handed to
\* GroupQueue.enqueue_task, each re-read from the store
hand_off(s, due_tasks) ==
    {i \in due_tasks : /\ get_task_by_id(s, i) # NoJob
                       /\ get_task_by_id(s, i).status = "active"}

\* GroupQueue.enqueue_task for the work of the jobs handed off: a job with a
\* run waiting in the queue is skipped
enqueue_tasks(runs, tasks) == runs \cup {TaskRun(task, "queued") : task \in tasks}

\* one pass of the poll loop: every due job that is still active is handed
\* to GroupQueue.enqueue_task
SchedulerPoll ==
    LET due == hand_off(IState, get_due_tasks(IState)) IN
    /\ due # {}
    /\ task_runs' = enqueue_tasks(task_runs, {TaskObject(i) : i \in due})
    /\ Cardinality(task_runs') <= MaxRuns
    /\ task_runs' # task_runs
    /\ UNCHANGED <<ivars, now, ticks, task_run_logs, TIMEZONE>>

\* log_task_run(TaskRunLog(task_id=.., status=..))
log_task_run(logs, task_id, status) == logs \cup {[task_id |-> task_id, status |-> status]}

\* the queue starts _run_task, when no other run of the group is in progress:
\* it runs up to the await of the worker, or logs an error and returns at
\* once when no registered group has the job's folder
RunTaskBegin(r) ==
    /\ r \in task_runs /\ r.phase = "queued"
    /\ \A q \in task_runs : q.phase = "running" => q.task.chat_id # r.task.chat_id
    /\ IF \E c \in ChatIds : registered_groups[c] = r.task.group_folder
       THEN /\ task_runs' = (task_runs \ {r}) \cup {TaskRun(r.task, "running")}
            /\ UNCHANGED task_run_logs
       ELSE /\ task_runs' = task_runs \ {r}
            /\ task_run_logs' = log_task_run(task_run_logs, r.task.id, "error")
    /\ UNCHANGED <<ivars, now, ticks, TIMEZONE>>

\* the worker is done (status success) or has failed or raised (status
\* error): _run_task logs the run, computes the next run and stores it
RunTaskEnd(r, status) ==
    /\ r \in task_runs /\ r.phase = "running"
    /\ task_run_logs' = log_task_run(task_run_logs, r.task.id, status)
    /\ scheduled_tasks' =
        update_task_after_run(scheduled_tasks, r.task.id, next_run_after(r.task, now))
    /\ task_runs' = task_runs \ {r}
    /\ UNCHANGED <<registered_groups, ipc_sent, now, ticks, TIMEZONE>>

\* the steps the clock makes between two readings
TickSteps == {HourMs, 22 * HourMs}

Tick(step) ==
    /\ ticks < MaxTicks
    /\ now' = now + step
    /\ ticks' = ticks + 1
    /\ UNCHANGED <<ivars, task_runs, task_run_logs, TIMEZONE>>

\* the request files written while the scheduler runs: schedules for group
\* a's chat, pause, resume and cancel, and main moving group a's chat to
\* folder b and back
JobsRequests ==
    {d \in ScheduleRequests : d.targetChatId = "c_a"} \cup JobRequests
    \cup {Request("register_group", None, NoId, None, <<None, None>>,
                  "c_a", "name", f, "@Andy") : f \in {"a", "b"}}

LiveJobs == {i \in JobIds : scheduled_tasks[i] # NoJob}

JobsNext ==
    /\ \/ \E source_group \in {MAIN_GROUP_FOLDER, "a"}, d \in JobsRequests,
             new_id \in JobIds \cup {NoId} :
            /\ IpcTaskFile(source_group, WithIdentity(d, WrittenIdentity), new_id)
            /\ Cardinality({i \in JobIds : scheduled_tasks'[i] # NoJob}) <= MaxLiveJobs
            /\ task_run_logs' = {l \in task_run_logs : scheduled_tasks'[l.task_id] # NoJob}
            /\ UNCHANGED <<now, ticks, task_runs, TIMEZONE>>
       \/ SchedulerPoll
       \/ \E r \in task_runs : RunTaskBegin(r)
       \/ \E r \in task_runs, status \in {"success", "error"} : RunTaskEnd(r, status)
       \/ \E step \in TickSteps : Tick(step)
    /\ UNCHANGED <<qvars, rvars, mvars, cvars, lvars>>

\* ------------------------------------------------------------------------
\* The poll loops (task_scheduler.py, ipc.py) and the files of a mailbox
\* ------------------------------------------------------------------------
LoopIds == 1..MaxLoops
IpcFileIds == 1..MaxIpcFiles

\* the group whose mailbox the files are written to
MailboxGroup == "a"

\* a request file: one that is parsed and handled, one that json.loads
\* refuses, and one whose handling raises after it has suspended
FileKinds == {"handled", "invalid", "fails"}

\* a file that has not been written
NoFile == [kind |-> "none", at |-> "none", name |-> <<>>]

\* no coroutine with this id is in the loop of start_ipc_watcher
NoLoop == [pc |-> "none", todo |-> {}, seen |-> {}, at |-> 0]

\* neither loop has been started and the mailbox is empty
NoLoops ==
    /\ scheduler_running = FALSE
    /\ scheduler_loops = {}
    /\ ipc_watcher_running = FALSE
    /\ ipc_loops = [l \in LoopIds |-> NoLoop]
    /\ ipc_files = [f \in IpcFileIds |-> NoFile]
    /\ ipc_processed = [f \in IpcFileIds |-> 0]

\* the mailbox
Mailbox == [files |-> ipc_files, processed |-> ipc_processed]

\* _move_to_errors(file_path, ipc_base_dir, source_group): the rename raises
\* for a file that is gone, and the exception is swallowed
move_to_errors(files, f, source_group) ==
    IF files[f].at = "mailbox"
    THEN [files EXCEPT ![f].at = "errors", ![f].name = <<source_group, f>>]
    ELSE files

\* file_path.unlink() in the try block: for a file that is gone it raises,
\* and the except block calls _move_to_errors
unlink(files, f, source_group) ==
    IF files[f].at = "mailbox"
    THEN [files EXCEPT ![f].at = "deleted"]
    ELSE move_to_errors(files, f, source_group)

\* the for loop over the sorted files of the directory, from the files left
\* up to the next await of a handler or to the end of the list
RECURSIVE process_files(_, _)
process_files(m, todo) ==
    IF todo = {} THEN [files |-> m.files, processed |-> m.processed, todo |-> {}, at |-> 0]
    ELSE LET f == Min(todo)
             read == [m EXCEPT !.processed[f] = @ + 1] IN
         IF m.files[f].at # "mailbox"
         THEN process_files([m EXCEPT !.files = move_to_errors(@, f, MailboxGroup)],
                            todo \ {f})
         ELSE IF m.files[f].kind = "invalid"
         THEN process_files([read EXCEPT !.files = move_to_errors(@, f, MailboxGroup)],
                            todo \ {f})
         ELSE [files |-> read.files, processed |-> read.processed,
               todo |-> todo \ {f}, at |-> f]

\* the loop l goes on with the files left of its pass
ProcessFiles(l, m, todo, seen) ==
    \E r \in {process_files(m, todo)} :
    /\ ipc_files' = r.files
    /\ ipc_processed' = r.processed
    /\ ipc_loops' = [ipc_loops EXCEPT ![l] =
            [pc |-> IF r.at = 0 THEN "sleeping" ELSE "handling",
             todo |-> r.todo, seen |-> seen, at |-> r.at]]

\* _process_ipc_files is called: the .json files of the directory are listed
BeginPass(l) ==
    LET listed == {f \in IpcFileIds : ipc_files[f].at = "mailbox"} IN
    ProcessFiles(l, Mailbox, listed, listed)

\* a coroutine of start_ipc_watcher begins: a duplicate start returns
StartIpcWatcher(l) ==
    /\ ipc_loops[l].pc = "none"
    /\ IF ipc_watcher_running
       THEN UNCHANGED <<ipc_watcher_running, ipc_loops, ipc_files, ipc_processed>>
       ELSE ipc_watcher_running' = TRUE /\ BeginPass(l)
    /\ UNCHANGED <<scheduler_running, scheduler_loops>>

\* stop_ipc_watcher()
StopIpcWatcher ==
    /\ ipc_watcher_running' = FALSE
    /\ UNCHANGED <<scheduler_running, scheduler_loops, ipc_loops, ipc_files, ipc_processed>>

\* asyncio.sleep(IPC_POLL_INTERVAL) returns in loop l: the flag is tested
IpcLoopWakes(l) ==
    /\ ipc_loops[l].pc = "sleeping"
    /\ IF ipc_watcher_running
       THEN BeginPass(l)
       ELSE /\ ipc_loops' = [ipc_loops EXCEPT ![l] = NoLoop]
            /\ UNCHANGED <<ipc_files, ipc_processed>>
    /\ UNCHANGED <<scheduler_running, scheduler_loops, ipc_watcher_running>>

\* the handler that loop l awaits returns or raises: the file is unlinked or
\* moved to the errors directory and the pass goes on
IpcHandlerEnds(l) ==
    LET f == ipc_loops[l].at
        files == IF ipc_files[f].kind = "fails"
                 THEN move_to_errors(ipc_files, f, MailboxGroup)
                 ELSE unlink(ipc_files, f, MailboxGroup) IN
    /\ ipc_loops[l].pc = "handling"
    /\ ProcessFiles(l, [Mailbox EXCEPT !.files = files], ipc_loops[l].todo, ipc_loops[l].seen)
    /\ UNCHANGED <<scheduler_running, scheduler_loops, ipc_watcher_running>>

\* a worker of the group writes a request file
WorkerWritesFile(f, kind) ==
    /\ ipc_files[f] = NoFile
    /\ ipc_files' = [ipc_files EXCEPT ![f] = [kind |-> kind, at |-> "mailbox", name |-> <<>>]]
    /\ UNCHANGED <<scheduler_running, scheduler_loops, ipc_watcher_running, ipc_loops>>
    /\ UNCHANGED ipc_processed

\* a coroutine of start_scheduler_loop begins: a duplicate start returns
StartSchedulerLoop(l) ==
    /\ l \notin scheduler_loops
    /\ IF scheduler_running
       THEN UNCHANGED <<scheduler_running, scheduler_loops>>
       ELSE scheduler_running' = TRUE /\ scheduler_loops' = scheduler_loops \cup {l}
    /\ UNCHANGED <<ipc_watcher_running, ipc_loops, ipc_files, ipc_processed>>

\* stop_scheduler()
StopScheduler ==
    /\ scheduler_running' = FALSE
    /\ UNCHANGED <<scheduler_loops, ipc_watcher_running, ipc_loops, ipc_files, ipc_processed>>

\* asyncio.sleep(SCHEDULER_POLL_INTERVAL) returns in loop l: the flag is
\* tested, and the loop makes its next pass or ends
SchedulerLoopWakes(l) ==
    /\ l \in scheduler_loops
    /\ scheduler_loops' = IF scheduler_running THEN scheduler_loops ELSE scheduler_loops \ {l}
    /\ UNCHANGED <<scheduler_running, ipc_watcher_running, ipc_loops, ipc_files, ipc_processed>>

LoopsNext ==
    /\ \/ \E l \in LoopIds : StartSchedulerLoop(l)
       \/ StopScheduler
       \/ \E l \in LoopIds : SchedulerLoopWakes(l)
       \/ \E l \in LoopIds : StartIpcWatcher(l)
       \/ StopIpcWatcher
       \/ \E l \in LoopIds : IpcLoopWakes(l)
       \/ \E l \in LoopIds : IpcHandlerEnds(l)
       \/ \E f \in IpcFileIds, kind \in FileKinds : WorkerWritesFile(f, kind)
    /\ UNCHANGED <<qvars, ivars, svars, rvars, mvars, cvars>>

\* ------------------------------------------------------------------------
\* The supervisor reading a worker's stdout (container_runner.py)
\* ------------------------------------------------------------------------
OUTPUT_START == "===OUTPUT_START==="
OUTPUT_END == "===OUTPUT_END==="

\* the lines of a stream: the markers, two envelopes written on one line, a
\* JSON value that is not an object, and a fragment that is not JSON by
\* itself (noise) while two of them on consecutive lines are an envelope
\* written on two lines
Lines == {OUTPUT_START, OUTPUT_END, "obj1", "obj2", "list", "frag"}

\* len(line)
LineLen(line) == IF line = "obj2" THEN 2 ELSE 1

RECURSIVE SeqsUpTo(_, _)
SeqsUpTo(S, n) ==
    IF n = 0 THEN {<<>>}
    ELSE LET shorter == SeqsUpTo(S, n - 1) IN
         shorter \cup {Append(q, x) : q \in {q \in shorter : Len(q) = n - 1}, x \in S}

Streams == SeqsUpTo(Lines, MaxStreamLen)

\* json.loads("\n".join(buffer)): the name of the value, or "invalid" when
\* it raises JSONDecodeError
json_loads(lines) ==
    CASE lines = <<"obj1">> -> "obj1"
      [] lines = <<"obj2">> -> "obj2"
      [] lines = <<"frag", "frag">> -> "obj3"
      [] lines = <<"list">> -> "list"
      [] OTHER -> "invalid"

\* ContainerOutput(status=parsed.get("status", "success"), ...)
Envelope(name) ==
    CASE name = "obj1" -> [status |-> "success", result |-> "first", error |-> None]
      [] name = "obj2" -> [status |-> "error", result |-> None, error |-> "failed"]
      [] name = "obj3" -> [status |-> "success", result |-> "third", error |-> None]

\* the value final starts with
NoOutput == [status |-> "error", result |-> None, error |-> "No output received"]

\* the locals of _read_container_output
RState ==
    [buffer |-> buffer, in_output |-> in_output, total_size |-> total_size,
     final |-> final, forwarded |-> forwarded, reader |-> reader]

SetRState(s) ==
    /\ buffer' = s.buffer
    /\ in_output' = s.in_output
    /\ total_size' = s.total_size
    /\ final' = s.final
    /\ forwarded' = s.forwarded
    /\ reader' = s.reader

\* (variant: only the first envelope becomes the result)
on_envelope_keeping_first(s, output) ==
    [s EXCEPT !.final = IF @ = NoOutput THEN output ELSE @,
              !.forwarded = Append(@, output)]

\* final = output; await on_output(output)
on_envelope(s, output) ==
    [s EXCEPT !.final = output, !.forwarded = Append(@, output)]

\* the body of the read loop for one line
read_line(s, line) ==
    IF line = OUTPUT_START
    THEN [s EXCEPT !.in_output = TRUE, !.buffer = <<>>]
    ELSE IF line = OUTPUT_END /\ s.in_output
    THEN LET parsed == json_loads(s.buffer)
             closed == [s EXCEPT !.in_output = FALSE] IN
         IF parsed = "invalid" THEN closed
         ELSE IF parsed = "list" THEN [closed EXCEPT !.reader = "raised"]
         ELSE on_envelope(closed, Envelope(parsed))
    ELSE IF s.in_output
    THEN LET size == s.total_size + LineLen(line) IN
         IF size > CONTAINER_MAX_OUTPUT_SIZE
         THEN [s EXCEPT !.total_size = size, !.in_output = FALSE]
         ELSE [s EXCEPT !.total_size = size, !.buffer = Append(@, line)]
    ELSE s

\* before a worker is spawned
RInit ==
    /\ nread = 0
    /\ buffer = <<>>
    /\ in_output = FALSE
    /\ total_size = 0
    /\ final = NoOutput
    /\ forwarded = <<>>
    /\ reader = "reading"

\* readline() returns the next line of the stream
ReadLine ==
    /\ reader = "reading"
    /\ nread < Len(stream)
    /\ nread' = nread + 1
    /\ SetRState(read_line(RState, stream[nread + 1]))
    /\ UNCHANGED stream

\* readline() returns b"": the loop ends and final is returned
ReadEof ==
    /\ reader = "reading"
    /\ nread = Len(stream)
    /\ reader' = "returned"
    /\ UNCHANGED <<stream, nread, buffer, in_output, total_size, final, forwarded>>

ReadNext == (ReadLine \/ ReadEof) /\ UNCHANGED <<qvars, ivars, svars, mvars, cvars, lvars>>

\* ------------------------------------------------------------------------
\* Validation of extra mounts (mount_security.py)
\* ------------------------------------------------------------------------
DEFAULT_BLOCKED_PATTERNS ==
    {".ssh", ".gnupg", ".gpg", ".aws", ".azure", ".gcloud", ".kube", ".docker",
     "credentials", ".env", ".netrc", ".npmrc", ".pypirc", "id_rsa", "id_ed25519",
     "private_key", ".secret"}

\* AllowedRoot(path, allow_read_write)
AllowedRoot(path, allow_read_write) ==
    [path |-> path, allow_read_write |-> allow_read_write]

\* MountAllowlist() with the defaults of its fields
EmptyAllowlist ==
    [allowed_roots |-> <<>>, blocked_patterns |-> {}, non_main_read_only |-> TRUE]

\* the allowlists an operator may write to the file
AllowlistContents ==
    {[allowed_roots |-> <<AllowedRoot("/srv/proj", rw)>>,
      blocked_patterns |-> bp,
      non_main_read_only |-> n] :
        rw \in BOOLEAN, bp \in {{}, {"proj/app"}}, n \in BOOLEAN}

\* the file at MOUNT_ALLOWLIST_PATH: absent, present with a content that
\* json.loads or MountAllowlist.model_validate refuses, or a valid allowlist
AllowlistFiles ==
    {[kind |-> k, content |-> EmptyAllowlist] : k \in {"absent", "invalid"}}
        \cup {[kind |-> "valid", content |-> c] : c \in AllowlistContents}

\* _cached_allowlist is None
NoAllowlist == [loaded |-> FALSE, allowlist |-> EmptyAllowlist]

\* _get_real_path(_expand_path(p)): the components of the real path on the
\* host's disk, <<>> when the path does not exist; /srv/proj/link is a
\* symbolic link to /etc
RealPath(p) ==
    CASE p = "/srv/proj" -> <<"srv", "proj">>
      [] p = "/srv/proj/app" -> <<"srv", "proj", "app">>
      [] p = "/srv/proj/.ssh" -> <<"srv", "proj", ".ssh">>
      [] p = "/srv/proj/my.env.d" -> <<"srv", "proj", "my.env.d">>
      [] p = "/srv/proj/secrets" -> <<"srv", "proj", "secrets">>
      [] p = "/srv/proj/link" -> <<"etc">>
      [] p = "/etc" -> <<"etc">>
      [] OTHER -> <<>>

HostPaths ==
    {"/srv/proj/app", "/srv/proj/.ssh", "/srv/proj/my.env.d", "/srv/proj/secrets",
     "/srv/proj/link", "/etc", "/missing"}

\* Path(host_path).name
Basename(p) ==
    CASE p = "/srv/proj/app" -> "app"
      [] p = "/srv/proj/.ssh" -> ".ssh"
      [] p = "/srv/proj/my.env.d" -> "my.env.d"
      [] p = "/srv/proj/secrets" -> "secrets"
      [] p = "/srv/proj/link" -> "link"
      [] p = "/etc" -> "etc"
      [] p = "/missing" -> "missing"

\* pattern in part, for the path components and patterns above
InPart(pattern, part) ==
    \/ part = pattern
    \/ pattern = ".env" /\ part = "my.env.d"
    \/ pattern = "secret" /\ part = "secrets"

\* pattern in real_path: somewhere in a component, or across separators
InPath(pattern, real_path) ==
    \/ \E i \in 1..Len(real_path) : InPart(pattern, real_path[i])
    \/ pattern = "proj/app" /\ real_path = <<"srv", "proj", "app">>

\* (variant: a pattern blocks a path only when it equals a whole component)
matches_blocked_pattern_whole_component(real_path, blocked_patterns) ==
    \E pattern \in blocked_patterns : \E i \in 1..Len(real_path) : real_path[i] = pattern

\* _matches_blocked_pattern(real_path, blocked_patterns) is not None
matches_blocked_pattern(real_path, blocked_patterns) ==
    \E pattern \in blocked_patterns :
        \/ \E i \in 1..Len(real_path) : InPart(pattern, real_path[i])
        \/ InPath(pattern, real_path)

\* Path(real_path).relative_to(real_root) does not raise
relative_to(real_path, real_root) ==
    /\ Len(real_root) <= Len(real_path)
    /\ SubSeq(real_path, 1, Len(real_root)) = real_root

\* the indices of the roots that _find_allowed_root would return
allowed_root_indices(real_path, allowed_roots) ==
    {i \in 1..Len(allowed_roots) :
        /\ RealPath(allowed_roots[i].path) # <<>>
        /\ relative_to(real_path, RealPath(allowed_roots[i].path))}

\* _is_valid_container_path(container_path)
is_valid_container_path(container_path) ==
    container_path \notin {"../x", "/abs", "", " "}

\* an AdditionalMount
Mount(host_path, container_path, readonly) ==
    [host_path |-> host_path, container_path |-> container_path, readonly |-> readonly]

\* the requests given to validate_mount: every host path with the default
\* container path, and host paths with each kind of container path, read-only
\* or read-write
MountRequests ==
    {Mount(h, None, TRUE) : h \in HostPaths}
        \cup {Mount("/srv/proj/secrets", None, FALSE)}
        \cup {Mount("/srv/proj/app", c, ro) :
                  c \in {"data", "../x", "/abs", "", " "}, ro \in BOOLEAN}

\* the requests that the configuration of a group lists
ListedMounts ==
    {Mount("/srv/proj/app", None, FALSE), Mount("/srv/proj/app", "data", TRUE),
     Mount("/srv/proj/.ssh", None, TRUE)}

MountLists == SeqsUpTo(ListedMounts, MaxMounts)

\* MountValidationResult(allowed, reason, real_host_path,
\* resolved_container_path, effective_readonly)
MountValidationResult(allowed, reason, real_host_path, resolved_container_path, effective_readonly) ==
    [allowed |-> allowed, reason |-> reason, real_host_path |-> real_host_path,
     resolved_container_path |-> resolved_container_path,
     effective_readonly |-> effective_readonly]

Rejected(reason) == MountValidationResult(FALSE, reason, <<>>, None, "None")

\* no call of validate_mount has returned yet
NoResult == MountValidationResult(FALSE, "none", <<>>, None, "None")

\* the globals of mount_security.py and the file they are loaded from
MState ==
    [file |-> allowlist_file, cached |-> cached_allowlist, error |-> allowlist_load_error]

\* (variant: a failed load is not remembered and the file is read again)
load_mount_allowlist_retrying(s) ==
    IF s.cached.loaded THEN s
    ELSE IF s.file.kind = "absent" THEN [s EXCEPT !.error = "not found"]
    ELSE IF s.file.kind = "invalid" THEN [s EXCEPT !.error = "failed to load"]
    ELSE [s EXCEPT !.cached =
            [loaded |-> TRUE,
             allowlist |-> [s.file.content EXCEPT !.blocked_patterns =
                               DEFAULT_BLOCKED_PATTERNS \cup @]]]

\* load_mount_allowlist(): the globals after the call; the value returned
\* is the cached allowlist, None when the cache is still empty
load_mount_allowlist(s) ==
    IF s.cached.loaded THEN s
    ELSE IF s.error # None THEN s
    ELSE IF s.file.kind = "absent" THEN [s EXCEPT !.error = "not found"]
    ELSE IF s.file.kind = "invalid" THEN [s EXCEPT !.error = "failed to load"]
    ELSE [s EXCEPT !.cached =
            [loaded |-> TRUE,
             allowlist |-> [s.file.content EXCEPT !.blocked_patterns =
                               DEFAULT_BLOCKED_PATTERNS \cup @]]]

\* validate_mount(mount, is_main), given the globals after its call of
\* load_mount_allowlist()
validate_mount(s, mount, is_main) ==
    IF ~s.cached.loaded THEN Rejected("No mount allowlist configured")
    ELSE
    LET allowlist == s.cached.allowlist
        container_path == IF mount.container_path \in {None, ""}
                          THEN Basename(mount.host_path)
                          ELSE mount.container_path
        real_path == RealPath(mount.host_path)
        roots == allowed_root_indices(real_path, allowlist.allowed_roots) IN
    IF ~is_valid_container_path(container_path) THEN Rejected("Invalid container path")
    ELSE IF real_path = <<>> THEN Rejected("Host path does not exist")
    ELSE IF matches_blocked_pattern(real_path, allowlist.blocked_patterns)
    THEN Rejected("Path matches blocked pattern")
    ELSE IF roots = {} THEN Rejected("Path is not under any allowed root")
    ELSE LET allowed_root == allowlist.allowed_roots[Min(roots)]
             requested_read_write == mount.readonly = FALSE
             effective_readonly ==
                 IF requested_read_write
                 THEN IF ~is_main /\ allowlist.non_main_read_only THEN TRUE
                      ELSE IF ~allowed_root.allow_read_write THEN TRUE
                      ELSE FALSE
                 ELSE TRUE IN
         MountValidationResult(TRUE, "Allowed under root", real_path, container_path,
                               IF effective_readonly THEN "True" ELSE "False")

\* ValidatedMount(host_path, container_path, readonly) as built by
\* validate_additional_mounts from an allowed result
ValidatedMount(result) ==
    [host_path |-> result.real_host_path,
     container_path |-> <<"/workspace/extra/", result.resolved_container_path>>,
     readonly |-> (result.effective_readonly = "True" \/ TRUE)]

\* the for loop of validate_additional_mounts over the mounts left, with
\* the globals and the list validated so far
RECURSIVE validate_each(_, _, _, _)
validate_each(s, mounts, is_main, sofar) ==
    IF mounts = <<>> THEN [state |-> s, validated |-> sofar]
    ELSE LET loaded == load_mount_allowlist(s)
             result == validate_mount(loaded, Head(mounts), is_main) IN
         validate_each(loaded, Tail(mounts), is_main,
                       IF result.allowed
                       THEN Append(sofar, ValidatedMount(result))
                       ELSE sofar)

\* validate_additional_mounts(mounts, group_name, is_main): the globals after
\* the call and the list returned
validate_additional_mounts(s, mounts, is_main) ==
    validate_each(s, mounts, is_main, <<>>)

\* the process starts: nothing is cached
MInit ==
    /\ cached_allowlist = NoAllowlist
    /\ allowlist_load_error = None
    /\ mount_result = NoResult
    /\ validated = <<>>

\* a call of validate_mount
ValidateMount(mount, is_main) ==
    \E loaded \in {load_mount_allowlist(MState)} :
    /\ cached_allowlist' = loaded.cached
    /\ allowlist_load_error' = loaded.error
    /\ mount_result' = validate_mount(loaded, mount, is_main)
    /\ validated' = <<>>
    /\ UNCHANGED allowlist_file

\* a call of validate_additional_mounts, as _build_container_command makes
\* for a group whose configuration lists extra mounts
ValidateAdditionalMounts(mounts, is_main) ==
    \E call \in {validate_additional_mounts(MState, mounts, is_main)} :
    /\ mounts # <<>>
    /\ cached_allowlist' = call.state.cached
    /\ allowlist_load_error' = call.state.error
    /\ validated' = call.validated
    /\ mount_result' = NoResult
    /\ UNCHANGED allowlist_file

\* the operator creates, rewrites or removes the allowlist file
WriteAllowlistFile(f) ==
    /\ allowlist_file # f
    /\ allowlist_file' = f
    /\ UNCHANGED <<cached_allowlist, allowlist_load_error, mount_result, validated>>

MountNext ==
    /\ \/ \E mount \in MountRequests, is_main \in BOOLEAN : ValidateMount(mount, is_main)
       \/ \E mounts \in MountLists, is_main \in BOOLEAN :
              ValidateAdditionalMounts(mounts, is_main)
       \/ \E f \in AllowlistFiles : WriteAllowlistFile(f)
    /\ UNCHANGED <<qvars, ivars, svars, rvars, cvars, lvars>>

\* ------------------------------------------------------------------------
\* The supervisor of one worker (container_runner.py, run_container_agent)
\* ------------------------------------------------------------------------
\* the streams of the specification of the supervisor
RunStreams == SeqsUpTo(Lines, MaxRunStreamLen)

\* the envelope returned when the read times out
TimedOut == [status |-> "error", result |-> None, error |-> "Container timed out"]

\* the envelope returned when the container cannot be started
FailedToStart ==
    [status |-> "error", result |-> None, error |-> "Failed to start container"]

\* proc.kill(): a process that has exited stays as it is (the exception is
\* swallowed)
kill(p) == IF p = "running" THEN "killed" ELSE p

\* run_container_agent has not been called
NoRun ==
    /\ run_pc = "idle"
    /\ proc = None
    /\ proc_waited = FALSE
    /\ final_output = NoOutput
    /\ clock = 0
    /\ deadline = 0

\* run_container_agent is called: it builds the command and suspends in
\* create_subprocess_exec
RunContainerAgent ==
    /\ run_pc = "idle"
    /\ run_pc' = "spawn"
    /\ UNCHANGED <<proc, proc_waited, final_output, clock, deadline, rvars>>

\* create_subprocess_exec returns the process, which is registered, and the
\* input is written to its stdin: the run suspends in stdin.drain()
RunSpawned ==
    /\ run_pc = "spawn"
    /\ proc' = "running"
    /\ run_pc' = "stdin"
    /\ UNCHANGED <<proc_waited, final_output, clock, deadline, rvars>>

\* create_subprocess_exec raises: the error envelope is returned
RunSpawnFails ==
    /\ run_pc = "spawn"
    /\ final_output' = FailedToStart
    /\ run_pc' = "returned"
    /\ UNCHANGED <<proc, proc_waited, clock, deadline, rvars>>

\* stdin.drain() returns: stdin is closed and the read begins under
\* wait_for(.., CONTAINER_TIMEOUT / 1000)
RunStdinWritten ==
    /\ run_pc = "stdin"
    /\ run_pc' = "reading"
    /\ deadline' = clock + CONTAINER_TIMEOUT
    /\ final_output' = NoOutput
    /\ UNCHANGED <<proc, proc_waited, clock, rvars>>

\* stdin.drain() raises (the worker has closed its stdin): nothing catches
\* the exception
RunStdinRaises ==
    /\ run_pc = "stdin"
    /\ run_pc' = "raised"
    /\ UNCHANGED <<proc, proc_waited, final_output, clock, deadline, rvars>>

\* the reader gets a line; callback_ok is whether on_output, if the line
\* makes the reader call it, returns. An exception of the reader or of the
\* callback is not a TimeoutError: nothing catches it
RunReadLine(callback_ok) ==
    /\ run_pc = "reading"
    /\ nread < Len(stream)
    /\ nread' = nread + 1
    /\ LET s == read_line(RState, stream[nread + 1])
           called == Len(s.forwarded) > Len(forwarded)
           after == IF called /\ ~callback_ok THEN [s EXCEPT !.reader = "raised"]
                    ELSE s IN
       /\ callback_ok \/ called
       /\ SetRState(after)
       /\ run_pc' = IF after.reader = "raised" THEN "raised" ELSE "reading"
    /\ UNCHANGED <<stream, proc, proc_waited, final_output, clock, deadline>>

\* the reader reaches the end of the stream and returns final; the run
\* goes on to wait_for(proc.wait(), timeout=10)
RunReadEof ==
    /\ run_pc = "reading"
    /\ ReadEof
    /\ final_output' = final
    /\ run_pc' = "waiting"
    /\ deadline' = clock + PROCESS_WAIT
    /\ UNCHANGED <<proc, proc_waited, clock>>

\* the timeout of the read expires: the reader is cancelled, the timeout
\* envelope replaces the result and the process is killed
RunReadTimeout ==
    /\ run_pc = "reading"
    /\ clock >= deadline
    /\ reader' = "cancelled"
    /\ final_output' = TimedOut
    /\ proc' = kill(proc)
    /\ run_pc' = "waiting"
    /\ deadline' = clock + PROCESS_WAIT
    /\ UNCHANGED <<stream, nread, buffer, in_output, total_size, final, forwarded>>
    /\ UNCHANGED <<proc_waited, clock>>

\* proc.wait() returns: final_output is returned
RunProcWaited ==
    /\ run_pc = "waiting"
    /\ proc \in {"exited", "killed"}
    /\ proc_waited' = TRUE
    /\ run_pc' = "returned"
    /\ UNCHANGED <<proc, final_output, clock, deadline, rvars>>

\* the wait for the exit times out: the process is killed and final_output
\* is returned
RunWaitTimeout ==
    /\ run_pc = "waiting"
    /\ clock >= deadline
    /\ proc = "running"
    /\ proc' = kill(proc)
    /\ run_pc' = "returned"
    /\ UNCHANGED <<proc_waited, final_output, clock, deadline, rvars>>

\* the worker exits by itself
ProcExits ==
    /\ proc = "running"
    /\ proc' = "exited"
    /\ UNCHANGED <<run_pc, proc_waited, final_output, clock, deadline, rvars>>

\* time passes while the run is suspended on the worker (the start of the
\* process takes no time on the scale of the clock); a wait_for in force
\* ends at its deadline
TimePasses ==
    /\ run_pc \in {"stdin", "reading", "waiting"}
    /\ clock < MaxClock
    /\ run_pc \in {"reading", "waiting"} => clock < deadline
    /\ clock' = clock + 1
    /\ UNCHANGED <<run_pc, proc, proc_waited, final_output, deadline, rvars>>

RunNext ==
    /\ \/ RunContainerAgent
       \/ RunSpawned
       \/ RunSpawnFails
       \/ RunStdinWritten
       \/ RunStdinRaises
       \/ \E callback_ok \in BOOLEAN : RunReadLine(callback_ok)
       \/ RunReadEof
       \/ RunReadTimeout
       \/ RunProcWaited
       \/ RunWaitTimeout
       \/ ProcExits
       \/ TimePasses
    /\ UNCHANGED <<qvars, ivars, svars, mvars, lvars>>

\* ------------------------------------------------------------------------
\* The worker writing its results (container/agent-runner/main.py)
\* ------------------------------------------------------------------------
OUTPUT_START_MARKER == "---NANOCLAW_OUTPUT_START---"
OUTPUT_END_MARKER == "---NANOCLAW_OUTPUT_END---"

\* the results a worker writes: a success and an error envelope
WorkerOutputs == {"obj1", "obj2"}

\* json.dumps(output): the envelope on one line
json_dumps(name) == name

\* write_output(output): the lines printed to stdout
write_output(name) == <<OUTPUT_START_MARKER, json_dumps(name), OUTPUT_END_MARKER>>

\* the worker, which has read its input to the end of stdin, writes a result
WorkerWritesOutput(name) ==
    /\ proc = "running"
    /\ run_pc = "reading"
    /\ Len(stream) < 3 * MaxBlocks
    /\ stream' = stream \o write_output(name)
    /\ UNCHANGED <<nread, buffer, in_output, total_size, final, forwarded, reader>>
    /\ UNCHANGED cvars

\* the supervisor of a worker that writes its results with write_output;
\* stdout reaches its end when the worker has exited or has been killed
WorkerRunNext ==
    /\ \/ RunContainerAgent
       \/ RunSpawned
       \/ RunSpawnFails
       \/ RunStdinWritten
       \/ RunStdinRaises
       \/ \E name \in WorkerOutputs : WorkerWritesOutput(name)
       \/ \E callback_ok \in BOOLEAN : RunReadLine(callback_ok)
       \/ proc # "running" /\ RunReadEof
       \/ RunReadTimeout
       \/ RunProcWaited
       \/ RunWaitTimeout
       \/ ProcExits
       \/ TimePasses
    /\ UNCHANGED <<qvars, ivars, svars, mvars, lvars>>

\* no allowlist file has been written
NoMounts == MInit /\ allowlist_file = [kind |-> "absent", content |-> EmptyAllowlist]

Init ==
    /\ QInit /\ IInit /\ SInit /\ TIMEZONE = "UTC" /\ RInit /\ stream = <<>>
    /\ NoMounts /\ NoRun /\ NoLoops

\* the same start with any configured timezone
JobsInit ==
    /\ QInit /\ IInit /\ SInit /\ TIMEZONE \in TimeZones /\ RInit /\ stream = <<>>
    /\ NoMounts /\ NoRun /\ NoLoops

\* the same start with a worker that writes any stream
StreamInit ==
    /\ QInit /\ IInit /\ SInit /\ TIMEZONE = "UTC" /\ RInit /\ stream \in Streams
    /\ NoMounts /\ NoRun /\ NoLoops

\* the same start with any allowlist file, or none
MountInit ==
    /\ QInit /\ IInit /\ SInit /\ TIMEZONE = "UTC" /\ RInit /\ stream = <<>>
    /\ MInit /\ allowlist_file \in AllowlistFiles /\ NoRun /\ NoLoops

\* the same start with a worker that writes any of the short streams
RunInit ==
    /\ QInit /\ IInit /\ SInit /\ TIMEZONE = "UTC" /\ RInit /\ stream \in RunStreams
    /\ NoMounts /\ NoRun /\ NoLoops

\* the busy groups, bursts of calls, work that succeeds (so that no retry is
\* ever scheduled)
Next ==
    LoopNext(Succeeds, Bursts(1..NumBusy, MaxBurst), MaxWork)
    /\ UNCHANGED <<ivars, svars, rvars, mvars, cvars, lvars>>

Spec == Init /\ [][Next]_vars

\* the flaky groups, single calls, work that may fail, retries, shutdown
RetryNext ==
    /\ \/ LoopNext(AnyOutcome, Bursts(1..NumFlaky, 1), MaxRetryWork)
       \/ \E t \in BagToSet(timers) : TimerExpires(t)
       \/ RunRetry
       \/ RunCallShutdown
    /\ UNCHANGED <<ivars, svars, rvars, mvars, cvars, lvars>>

SpecRetry == Init /\ [][RetryNext]_vars

\* the busy groups, bursts of calls, work that succeeds, containers that
\* register with the queue, and a message loop that sends follow-up messages
WorkersNext ==
    /\ \/ LoopNext(Succeeds, Bursts(1..NumBusy, MaxBurst), MaxWorkersWork)
       \/ RunCallSendMessage(1..NumBusy, MaxWorkersWork)
       \/ \E run \in BagToSet(running) : RegisterProcess(run)
       \/ \E f \in GroupFolders : WorkerReadsInput(f)
    /\ UNCHANGED <<ivars, svars, rvars, mvars, cvars, lvars>>

SpecWorkers == Init /\ [][WorkersNext]_vars

\* all groups, a message loop that makes single calls, work that succeeds:
\* the groups queue up on the waiting list behind the running one
WaitingNext ==
    /\ LoopNext(Succeeds, MessageChecks(Groups), MaxWaitingWork)
    /\ UNCHANGED <<ivars, svars, rvars, mvars, cvars, lvars>>

SpecWaiting == Init /\ [][WaitingNext]_vars

\* the busy groups and a message loop that, each time it wakes, makes one
\* call or none
FairNext ==
    /\ LoopNext(Succeeds, MessageChecks(1..NumBusy) \cup {<<>>}, MaxFairWork)
    /\ UNCHANGED <<ivars, svars, rvars, mvars, cvars, lvars>>

\* a step in which the event loop begins an iteration or runs the oldest
\* ready handle
LoopRuns ==
    /\ \/ BeginIteration
       \/ RunStartSuspend
       \/ \E o \in Succeeds : RunStartToEnd(o, MaxFairWork)
       \/ \E o \in Succeeds : RunResume(o, MaxFairWork)
       \/ RunCallEnqueue(MessageChecks(1..NumBusy) \cup {<<>>}, MaxFairWork)
    /\ UNCHANGED <<ivars, svars, rvars, mvars, cvars, lvars>>

\* a step in which the work of a message-check run of g terminates
WorkTerminates(g) ==
    /\ CallbackDone(Run("messages", g, NoTask))
    /\ UNCHANGED <<ivars, svars, rvars, mvars, cvars, lvars>>

\* the same queue under a loop that keeps running (asyncio runs every ready
\* handle) and work that always terminates
SpecFair ==
    /\ Init /\ [][FairNext]_vars
    /\ WF_vars(LoopRuns)
    /\ \A g \in Groups : SF_vars(WorkTerminates(g))

\* the IPC watcher alone
SpecIpc == Init /\ [][IpcNext /\ UNCHANGED <<qvars, svars, rvars, mvars, cvars, lvars>>]_vars

\* the scheduler, the job requests of the IPC bus and the clock
SpecJobs == JobsInit /\ [][JobsNext]_vars

\* the supervisor reading the stdout of one worker
SpecStream == StreamInit /\ [][ReadNext]_vars

\* the validation of extra mounts while the allowlist file changes
SpecMounts == MountInit /\ [][MountNext]_vars

\* one call of run_container_agent, the worker and the clock
SpecRun == RunInit /\ [][RunNext]_vars

\* the supervisor and a worker that writes its results
SpecProtocol == Init /\ [][WorkerRunNext]_vars

\* the two poll loops, started and stopped in any order, and a mailbox
SpecLoops == Init /\ [][LoopsNext]_vars

\* ------------------------------------------------------------------------
\* Properties of the queue
\* ------------------------------------------------------------------------
\* the runs of group g that have begun and have not reached their end
InProgress(g) ==
    LET S == {r \in BagToSet(running) : r.chat_id = g} IN
    SumOver([r \in S |-> CopiesIn(r, running)], S)
    + Count(ready, LAMBDA hd : IsResume(hd) /\ hd.chat_id = g)

TotalInProgress == SumOver([g \in Groups |-> InProgress(g)], Groups)

\* the start handles for message-check runs of g among the handles hs
MessageStarts(hs, g) ==
    Count(hs, LAMBDA hd : IsStart(hd) /\ hd.kind = "messages" /\ hd.chat_id = g)

\* the handles a step that ran the oldest handle has appended
Appended == SubSeq(ready', Len(ready), Len(ready'))

\* a step in which the run at the head of the ready queue reaches its end
RunEnds(w) ==
    \/ \E o \in AnyOutcome : RunResume(o, w)
    \/ \E o \in AnyOutcome \cup {"none"} : RunStartToEnd(o, w)

\* C1: for every group, at most one unit of work (message-check run or task
\* run) is in progress at any time, whatever the interleaving of the
\* enqueue calls
C1_OneRunPerGroup == \A g \in Groups : InProgress(g) <= 1

\* C2: the number of units of work in progress at the same time never
\* exceeds MAX_CONCURRENT_CONTAINERS
C2_GlobalCap == TotalInProgress <= MAX_CONCURRENT_CONTAINERS

\* C3: an enqueue_message_check(g) made while g has a run in progress
\* starts no run and only sets g's pending flag, and when a run of g ends
\* with the flag set, one follow-up message check of g in total is started
C3_AbsorbedIntoFlag ==
    [][\A g \in Groups :
        /\ (/\ InProgress(g) > 0
            /\ RunCallEnqueue({<<[op |-> "message", chat_id |-> g, id |-> NoTask]>>},
                              MaxWork))
           => /\ ready' = Tail(ready)
              /\ pending_messages' = [pending_messages EXCEPT ![g] = TRUE]
        /\ (/\ \E o \in AnyOutcome : RunResume(o, MaxWork)
            /\ Head(ready).chat_id = g
            /\ pending_messages[g] /\ pending_tasks[g] = <<>>)
           => MessageStarts(ready', g) = 1
      ]_vars

\* C4: when a run ends, or waiting groups get a slot, a group with queued
\* tasks has its oldest task started first, and a message-check run is
\* started for a group only if its task queue is empty
C4_TasksBeforeMessages ==
    [][RunEnds(MaxWork) =>
        \A g \in Groups :
            /\ MessageStarts(Appended, g) > 0 => pending_tasks[g] = <<>>
            /\ (g = Head(ready).chat_id /\ pending_tasks[g] # <<>>)
               => /\ Appended = <<StartHandle("task", g, Head(pending_tasks[g]))>>
                  /\ pending_tasks'[g] = Tail(pending_tasks[g])
      ]_vars

\* a drain step has started a task of group 1 and left its message flag set
C4_Witness ==
    /\ pending_messages[1] /\ ~active[1] /\ 1 \notin Range(waiting)
    /\ InProgress(1) = 0
    /\ \E i \in 1..Len(ready) : IsStart(ready[i]) /\ ready[i].kind = "task"
                                 /\ ready[i].chat_id = 1
    /\ MessageStarts(ready, 1) = 0

\* C5: a failed message check (false or an exception) with retry_count = k-1
\* < 5 schedules a retry after base * 2^(k-1) and sets retry_count to k; the
\* failure after the fifth retry schedules nothing and resets retry_count to
\* 0; a successful message check resets retry_count to 0
C5_RetryBackoff ==
    [][\A o \in {"true", "false", "raise"} :
        (/\ RunResume(o, MaxRetryWork) \/ RunStartToEnd(o, MaxRetryWork)
         /\ Head(ready).kind = "messages")
        => LET g == Head(ready).chat_id
               k == retry_count[g] + 1
           IN IF o = "true"
              THEN retry_count'[g] = 0 /\ timers' = timers
              ELSE IF k <= 5
              THEN /\ retry_count'[g] = k
                   /\ timers' = timers (+) SetToBag({Timer(g, BASE_RETRY_SECONDS * Pow2(k - 1))})
              ELSE retry_count'[g] = 0 /\ timers' = timers
      ]_vars

\* the sixth failure in a row has been dropped
C5_Witness == last_error = "max_retries" /\ retry_count[1] = 0

\* C6: once shutdown() has been called no step creates a run or queues
\* work: not an enqueue call, not a retry timer, not the drain step of a run
\* that ends
C6_NothingStartsAfterShutdown ==
    [][shutting_down =>
        /\ Count(ready', IsStart) <= Count(ready, IsStart)
        /\ pending_tasks' = pending_tasks
        /\ waiting' = waiting
        /\ \A g \in Groups : pending_messages'[g] => pending_messages[g]
      ]_vars

\* after shutdown every run has ended and every timer has fired, and a
\* queued task is still queued
C6_Witness ==
    /\ shutting_down
    /\ ready = <<>> /\ running = EmptyBag /\ timers = EmptyBag
    /\ \E g \in Groups : pending_tasks[g] # <<>>

\* C7: a group's queue of pending tasks never holds a job id twice, and
\* enqueue_task for a job id that is queued changes nothing
C7_NoDoubleQueuing ==
    \A g \in Groups :
        /\ \A i, j \in 1..Len(pending_tasks[g]) :
              i # j => pending_tasks[g][i] # pending_tasks[g][j]
        /\ \A id \in Range(pending_tasks[g]) : enqueue_task(QState, g, id) = QState

\* every job id is queued for a group, so that any enqueue_task for it is a
\* repeat
C7_Witness ==
    \E g \in Groups : Len(pending_tasks[g]) = NumTaskIds /\ active[g]

\* ------------------------------------------------------------------------
\* Properties of the IPC bus
\* ------------------------------------------------------------------------
\* the rows of the job store that a result leaves different
ChangedJobs(r) == {i \in JobIds : r.tasks[i] # scheduled_tasks[i]}

\* C8: the decision and the resulting state of a request file depend on the
\* mailbox directory it was read from and on its type and target fields, never
\* on the identity fields of its body (isMain, groupFolder): whatever identity
\* the body carries, the result is the one of the same request without it, and
\* the result is the one process_task_ipc gives for the directory name with
\* is_main = (directory name = main folder).
C8_IdentityFromDirectory ==
    \A source_group \in Folders :
        /\ \A d \in Requests, new_id \in NewIds(IState) :
            LET r == process_task_ipc(IState, d, source_group,
                                      source_group = MAIN_GROUP_FOLDER, new_id) IN
            \A ident \in Identities :
                handle_task_file(IState, source_group, WithIdentity(d, ident), new_id)
                    = r
        /\ \A d \in MessageRequests :
            LET r == handle_message_file(IState, source_group, d) IN
            \A ident \in Identities :
                handle_message_file(IState, source_group, WithIdentity(d, ident)) = r

\* a job of main's is in the store, and a cancel_task for it whose body says
\* it comes from main is refused in mailbox a and carried out in mailbox main
C8_Witness ==
    \E i \in JobIds :
        /\ scheduled_tasks[i].group_folder = MAIN_GROUP_FOLDER
        /\ LET d == WithIdentity(
                        Request("cancel_task", None, i, None, <<None, None>>,
                                None, None, None, None),
                        <<"true", MAIN_GROUP_FOLDER>>) IN
           /\ handle_task_file(IState, "a", d, NoId).tasks = scheduled_tasks
           /\ handle_task_file(IState, "a", d, NoId).log.event = "unauthorized_cancel_task"
           /\ handle_task_file(IState, MAIN_GROUP_FOLDER, d, NoId).tasks[i] = NoJob

\* C9: a schedule_task request creates a job only if its target chat is a
\* registered group and the source mailbox is main or is the target group's
\* folder; otherwise the job store is unchanged.  The created job belongs to
\* the target's registered folder, so a job created from a non-main mailbox S
\* has group_folder = S.
C9_ScheduleAuthorized ==
    \A source_group \in Folders, d \in ScheduleRequests, new_id \in FreeIds(IState) :
        LET r == handle_task_file(IState, source_group,
                                  WithIdentity(d, WrittenIdentity), new_id) IN
        \/ r.tasks = scheduled_tasks
        \/ /\ ChangedJobs(r) = {new_id}
           /\ d.targetChatId # None
           /\ registered_groups[d.targetChatId] # None
           /\ \/ source_group = MAIN_GROUP_FOLDER
              \/ registered_groups[d.targetChatId] = source_group
           /\ r.tasks[new_id].group_folder = registered_groups[d.targetChatId]
           /\ r.tasks[new_id].chat_id = d.targetChatId
           /\ source_group # MAIN_GROUP_FOLDER
                => r.tasks[new_id].group_folder = source_group

\* a job scheduled for group a is in the store, and the same request is
\* refused in mailbox b and accepted in mailboxes a and main
C9_Witness ==
    /\ \E i \in JobIds : scheduled_tasks[i].group_folder = "a"
    /\ \E new_id \in FreeIds(IState) :
        LET d == WithIdentity(
                    Request("schedule_task", "c_a", NoId, "prompt",
                            <<"interval", "3600000">>, None, None, None, None),
                    WrittenIdentity) IN
        /\ handle_task_file(IState, "b", d, new_id).tasks = scheduled_tasks
        /\ handle_task_file(IState, "b", d, new_id).log.event
            = "unauthorized_schedule_task"
        /\ handle_task_file(IState, "a", d, new_id).tasks[new_id].group_folder = "a"
        /\ handle_task_file(IState, MAIN_GROUP_FOLDER, d, new_id).tasks[new_id]
            # NoJob

\* C10: pause_task, resume_task and cancel_task change or delete the job they
\* name only if it is in the store and the source mailbox is main or is the
\* job's group_folder, and then only that job: its status becomes paused or
\* active, or it is deleted.  In every other case the job store is unchanged.
C10_JobRequestAuthorized ==
    \A source_group \in Folders, d \in JobRequests, new_id \in NewIds(IState) :
        LET r == handle_task_file(IState, source_group,
                                  WithIdentity(d, WrittenIdentity), new_id)
            job == get_task_by_id(IState, d.taskId) IN
        /\ ChangedJobs(r) \subseteq {d.taskId}
        /\ ChangedJobs(r) # {} =>
            /\ job # NoJob
            /\ source_group = MAIN_GROUP_FOLDER \/ job.group_folder = source_group
        /\ (job # NoJob
            /\ (source_group = MAIN_GROUP_FOLDER \/ job.group_folder = source_group)) =>
            r.tasks[d.taskId] =
                CASE d.type = "pause_task" -> [job EXCEPT !.status = "paused"]
                  [] d.type = "resume_task" -> [job EXCEPT !.status = "active"]
                  [] d.type = "cancel_task" -> NoJob

\* a paused job of group a is in the store, and a resume_task for it is
\* refused in mailbox b while mailbox a may resume it
C10_Witness ==
    \E i \in JobIds :
        /\ scheduled_tasks[i].group_folder = "a"
        /\ scheduled_tasks[i].status = "paused"
        /\ LET d == WithIdentity(
                        Request("resume_task", None, i, None, <<None, None>>,
                                None, None, None, None),
                        WrittenIdentity) IN
           /\ handle_task_file(IState, "b", d, NoId).tasks = scheduled_tasks
           /\ handle_task_file(IState, "b", d, NoId).log.event
                = "unauthorized_resume_task"
           /\ handle_task_file(IState, "a", d, NoId).tasks[i].status = "active"

\* C11: a send request read from mailbox S is passed to the send callback if
\* and only if S is main or the target chat is registered with folder S; a
\* denied request sends nothing and changes nothing.
C11_SendAuthorized ==
    \A source_group \in Folders, d \in MessageRequests :
        (d.type = "message" /\ d.chatId # None /\ d.text # None) =>
            LET r == handle_message_file(IState, source_group,
                                         WithIdentity(d, WrittenIdentity))
                allowed == \/ source_group = MAIN_GROUP_FOLDER
                           \/ /\ registered_groups[d.chatId] # None
                              /\ registered_groups[d.chatId] = source_group IN
            /\ allowed <=> r.log.event = "message_sent"
            /\ allowed => r.sent = d.chatId
            /\ ~allowed => /\ r.sent = ipc_sent
                           /\ r.log.event = "unauthorized_message"
            /\ r.tasks = scheduled_tasks /\ r.groups = registered_groups

\* a message has been sent to group a's chat; mailbox a may send there and
\* mailbox b may not, mailbox a may not send to main's chat nor to a chat
\* that is not registered, and main may send to that chat
C11_Witness ==
    LET msg(c) == WithIdentity(
                    [Request("message", None, NoId, None, <<None, None>>, c,
                             None, None, None) EXCEPT !.text = "hello"],
                    WrittenIdentity) IN
    /\ ipc_sent = "c_a"
    /\ registered_groups["c_b"] = None
    /\ handle_message_file(IState, "a", msg("c_a")).log.event = "message_sent"
    /\ handle_message_file(IState, "b", msg("c_a")).log.event = "unauthorized_message"
    /\ handle_message_file(IState, "a", msg("c_main")).log.event
        = "unauthorized_message"
    /\ handle_message_file(IState, "a", msg("c_b")).sent = ipc_sent
    /\ handle_message_file(IState, MAIN_GROUP_FOLDER, msg("c_b")).sent = "c_b"

\* C12: a register_group or refresh_groups request read from a non-main
\* mailbox changes nothing: the registry is unchanged, the metadata is not
\* re-synced and no snapshot is written.  A register_group request from the
\* main mailbox registers the chat under the folder when chat id, name, folder
\* and trigger are all present, and leaves the registry unchanged otherwise.
C12_RegistryOnlyFromMain ==
    \A source_group \in Folders,
       d \in RegisterRequests \cup RegisterMoves \cup OtherRequests :
        LET r == handle_task_file(IState, source_group,
                                  WithIdentity(d, WrittenIdentity), NoId)
            complete == d.chatId # None /\ d.name # None /\ d.folder # None
                        /\ d.trigger # None IN
        /\ r.tasks = scheduled_tasks /\ r.sent = ipc_sent
        /\ source_group # MAIN_GROUP_FOLDER =>
            r.groups = registered_groups /\ ~r.synced /\ r.snapshot = None
        /\ (source_group = MAIN_GROUP_FOLDER /\ d.type = "register_group") =>
            /\ complete =>
                r.groups = [registered_groups EXCEPT ![d.chatId] = d.folder]
            /\ ~complete => r.groups = registered_groups
        /\ (source_group = MAIN_GROUP_FOLDER /\ d.type = "refresh_groups") =>
            r.synced /\ r.snapshot = MAIN_GROUP_FOLDER /\ r.groups = registered_groups

\* main has registered a chat under folder b; a request from mailbox b that
\* would move group a's chat to folder b is refused, as is its refresh_groups,
\* and main's request without a trigger changes nothing
C12_Witness ==
    LET reg(c, f, tr) == WithIdentity(
                            Request("register_group", None, NoId, None,
                                    <<None, None>>, c, "name", f, tr),
                            WrittenIdentity)
        refresh == WithIdentity(
                        Request("refresh_groups", None, NoId, None, <<None, None>>,
                                None, None, None, None),
                        WrittenIdentity) IN
    /\ registered_groups["c_b"] = "b"
    /\ handle_task_file(IState, "b", reg("c_a", "b", "@Andy"), NoId).groups
        = registered_groups
    /\ handle_task_file(IState, "b", reg("c_a", "b", "@Andy"), NoId).log.event
        = "unauthorized_register_group"
    /\ handle_task_file(IState, MAIN_GROUP_FOLDER, reg("c_a", "b", "@Andy"), NoId)
        .groups["c_a"] = "b"
    /\ handle_task_file(IState, MAIN_GROUP_FOLDER, reg("c_a", "b", None), NoId).groups
        = registered_groups
    /\ handle_task_file(IState, "b", refresh, NoId).snapshot = None
    /\ handle_task_file(IState, MAIN_GROUP_FOLDER, refresh, NoId).snapshot
        = MAIN_GROUP_FOLDER

\* ------------------------------------------------------------------------
\* Properties of the job store and the scheduler
\* ------------------------------------------------------------------------
\* a step in which the run r of a job's work comes to its end: _run_task
\* returns after the worker, or at once because the job's group is gone
RunFinishes(r) ==
    \/ \E status \in {"success", "error"} : RunTaskEnd(r, status)
    \/ /\ RunTaskBegin(r)
       /\ ~\E c \in ChatIds : registered_groups[c] = r.task.group_folder

\* the jobs a step puts into the store
CreatedJobs == {i \in JobIds : scheduled_tasks[i] = NoJob /\ scheduled_tasks'[i] # NoJob}

\* C13: in every reachable state of the job store, a job's next_run is null
\* if and only if the job is a once job whose status is completed
C13_NextRunNullIffCompletedOnce ==
    \A i \in LiveJobs :
        scheduled_tasks[i].next_run = NoTime
            <=> (scheduled_tasks[i].schedule_type = "once"
                 /\ scheduled_tasks[i].status = "completed")

\* C14: every job in the store has a schedule kind among cron, interval and
\* once and a schedule value valid for its kind
C14_OnlyValidSchedulesStored ==
    \A i \in LiveJobs :
        LET kind == scheduled_tasks[i].schedule_type
            value == scheduled_tasks[i].schedule_value IN
        /\ kind \in {"cron", "interval", "once"}
        /\ kind = "cron" => cron_valid(value)
        /\ kind = "interval" => ~int_raises(value) /\ int_of(value) > 0
        /\ kind = "once" => iso_valid(value)

\* C15: an interval job with value v is created with next_run = creation
\* time + v, and after each run of it next_run = completion time + v
C15_IntervalNextRun ==
    [][/\ \A i \in CreatedJobs :
            scheduled_tasks'[i].schedule_type = "interval" =>
                scheduled_tasks'[i].next_run
                    = now + int_of(scheduled_tasks'[i].schedule_value)
       /\ \A r \in task_runs :
            (/\ RunFinishes(r)
             /\ r.task.schedule_type = "interval"
             /\ scheduled_tasks[r.task.id] # NoJob) =>
                scheduled_tasks'[r.task.id].next_run
                    = now + int_of(r.task.schedule_value)]_vars

\* C16: a once job is created with next_run equal to its timestamp, and
\* after a run of it its status is completed and its next_run is null, so
\* that the poll does not return it as due
C16_OnceCompletes ==
    [][/\ \A i \in CreatedJobs :
            scheduled_tasks'[i].schedule_type = "once" =>
                scheduled_tasks'[i].next_run
                    = iso_of(scheduled_tasks'[i].schedule_value)
       /\ \A r \in task_runs :
            (/\ RunFinishes(r)
             /\ r.task.schedule_type = "once"
             /\ scheduled_tasks[r.task.id] # NoJob) =>
                /\ scheduled_tasks'[r.task.id].status = "completed"
                /\ scheduled_tasks'[r.task.id].next_run = NoTime
                /\ r.task.id \notin
                    get_due_tasks([IState EXCEPT !.tasks = scheduled_tasks'])]_vars

\* the offset of the wall clock of a timezone from UTC
TzOffset(tz) == CASE tz = "UTC" -> 0 [] tz = "Asia/Tokyo" -> 9 * HourMs

\* C17: the next_run of a cron job, at creation and after every run, is the
\* next time strictly after the current time that matches the expression in
\* the configured timezone
C17_CronInConfiguredZone ==
    [][/\ \A i \in CreatedJobs :
            scheduled_tasks'[i].schedule_type = "cron" =>
                scheduled_tasks'[i].next_run
                    = cron_next_at_offset(scheduled_tasks'[i].schedule_value, now,
                                          TzOffset(TIMEZONE))
       /\ \A r \in task_runs :
            (/\ RunFinishes(r)
             /\ r.task.schedule_type = "cron"
             /\ scheduled_tasks[r.task.id] # NoJob) =>
                scheduled_tasks'[r.task.id].next_run
                    = cron_next_at_offset(r.task.schedule_value, now,
                                          TzOffset(TIMEZONE))]_vars

\* ------------------------------------------------------------------------
\* Properties of the reader of a worker's stdout (specification SpecStream)
\* ------------------------------------------------------------------------
Markers == {OUTPUT_START, OUTPUT_END}

\* the begin marker of the block that the end marker at line j closes: no
\* marker lies between the two
BlockEndingAt(st, j) ==
    {i \in 1..(j - 1) :
        /\ st[i] = OUTPUT_START
        /\ \A k \in (i + 1)..(j - 1) : st[k] \notin Markers}

\* the envelopes of the well-formed blocks that end in the first j lines
RECURSIVE EnvelopesUpTo(_, _)
EnvelopesUpTo(st, j) ==
    IF j = 0 THEN <<>>
    ELSE LET before == EnvelopesUpTo(st, j - 1)
             starts == IF st[j] = OUTPUT_END THEN BlockEndingAt(st, j) ELSE {} IN
         IF starts = {} THEN before
         ELSE LET i == CHOOSE i \in starts : TRUE
                  content == json_loads(SubSeq(st, i + 1, j - 1)) IN
              IF content \in {"obj1", "obj2", "obj3"}
              THEN Append(before, Envelope(content))
              ELSE before

EnvelopesOf(st) == EnvelopesUpTo(st, Len(st))

\* the characters of the lines that are not markers
RECURSIVE ContentSize(_)
ContentSize(st) ==
    IF st = <<>> THEN 0
    ELSE (IF Head(st) \in Markers THEN 0 ELSE LineLen(Head(st))) + ContentSize(Tail(st))

RECURSIVE IsSubsequence(_, _)
IsSubsequence(a, b) ==
    IF a = <<>> THEN TRUE
    ELSE IF b = <<>> THEN FALSE
    ELSE IF Head(a) = Head(b) THEN IsSubsequence(Tail(a), Tail(b))
    ELSE IsSubsequence(a, Tail(b))

\* C18: whatever the stream, reading it is never stopped by a block, and once
\* the stream has been read the envelopes yielded are exactly those of its
\* well-formed blocks, one for each, in stream order.
C18_OneEnvelopePerBlock ==
    /\ reader # "raised"
    /\ reader = "returned" => forwarded = EnvelopesOf(stream)

\* C19: when the reader reaches the end of the stream, the envelope returned
\* is the last one passed to on_output, or 'No output received' when none
\* was; the envelopes passed are envelopes of the stream's blocks, each once
\* and in stream order, and all of them while the output stays within the
\* size maximum.
C19_ReturnsLastEnvelope ==
    reader = "returned" =>
        /\ final = IF forwarded = <<>> THEN NoOutput ELSE forwarded[Len(forwarded)]
        /\ IsSubsequence(forwarded, EnvelopesOf(stream))
        /\ ContentSize(stream) <= CONTAINER_MAX_OUTPUT_SIZE =>
               forwarded = EnvelopesOf(stream)

\* two different envelopes were passed on and the second one is returned
C19_Witness ==
    /\ reader = "returned"
    /\ Len(forwarded) = 2
    /\ forwarded[1] # forwarded[2]
    /\ final = forwarded[2]

\* the stream ended without any envelope
C19_WitnessNoOutput ==
    /\ reader = "returned"
    /\ OUTPUT_START \in {stream[i] : i \in 1..Len(stream)}
    /\ forwarded = <<>>
    /\ final = NoOutput

\* the block that begins at line i holds more content than the maximum
\* within the first j lines
OversizedBefore(st, i, j) ==
    /\ st[i] = OUTPUT_START
    /\ \E k \in (i + 1)..j :
          /\ \A m \in (i + 1)..k : st[m] \notin Markers
          /\ ContentSize(SubSeq(st, i + 1, k)) > CONTAINER_MAX_OUTPUT_SIZE

\* C28: exceeding the output-size maximum abandons only the current block:
\* a well-formed block that comes after an oversized one and whose own
\* content is within the maximum is still parsed and passed to on_output,
\* and it is the result when it is the last block of the stream.
C28_OversizeAbandonsOneBlock ==
    reader = "returned" =>
        \A j \in 1..Len(stream) :
            \A i \in (IF stream[j] = OUTPUT_END THEN BlockEndingAt(stream, j) ELSE {}) :
                LET content == SubSeq(stream, i + 1, j - 1) IN
                (/\ \E i0 \in 1..(i - 1) : OversizedBefore(stream, i0, i - 1)
                 /\ json_loads(content) \in {"obj1", "obj2", "obj3"}
                 /\ ContentSize(content) <= CONTAINER_MAX_OUTPUT_SIZE)
                => /\ Envelope(json_loads(content)) \in Range(forwarded)
                   /\ EnvelopesUpTo(stream, j) = EnvelopesOf(stream) =>
                          final = Envelope(json_loads(content))

\* ------------------------------------------------------------------------
\* Properties of the validation of extra mounts (specification SpecMounts)
\* ------------------------------------------------------------------------
\* the process with the allowlist file replaced by f
WithFile(f) == [MState EXCEPT !.file = f]

\* every request is rejected and every list comes back empty, for a main or
\* another group, whatever the allowlist file holds by now
RejectsEverything ==
    \A f \in AllowlistFiles, is_main \in BOOLEAN :
        /\ LET loaded == load_mount_allowlist(WithFile(f)) IN
           \A mount \in MountRequests : ~validate_mount(loaded, mount, is_main).allowed
        /\ \A mounts \in MountLists :
               validate_additional_mounts(WithFile(f), mounts, is_main).validated = <<>>

\* a call of validate_mount or validate_additional_mounts that loads the
\* allowlist for the first time while the file is absent or unloadable
FirstLoadFails ==
    /\ ~cached_allowlist.loaded
    /\ allowlist_load_error = None
    /\ allowlist_file.kind \in {"absent", "invalid"}
    /\ \/ \E mount \in MountRequests, is_main \in BOOLEAN : ValidateMount(mount, is_main)
       \/ \E mounts \in MountLists, is_main \in BOOLEAN :
              ValidateAdditionalMounts(mounts, is_main)

\* C20: a call that finds the allowlist file absent or unloadable rejects
\* its request (validate_mount) or returns the empty list
\* (validate_additional_mounts) and records the failure; the record is never
\* cleared, and while it stands every request of every group is rejected,
\* whatever is done to the file afterwards.
C20_NoAllowlistRejectsAll ==
    /\ [](allowlist_load_error # None => RejectsEverything)
    /\ [][/\ FirstLoadFails =>
                 /\ ~mount_result'.allowed
                 /\ validated' = <<>>
                 /\ allowlist_load_error' # None
          /\ allowlist_load_error # None => allowlist_load_error' # None]_vars

\* the first load failed, a valid allowlist was written afterwards, and a
\* request that this allowlist allows for the main group was rejected
C20_Witness ==
    /\ allowlist_load_error # None
    /\ allowlist_file.kind = "valid"
    /\ mount_result.reason = "No mount allowlist configured"
    /\ validate_mount([MState EXCEPT !.error = None,
                                     !.cached = load_mount_allowlist_retrying(MState).cached],
                      Mount("/srv/proj/secrets", None, TRUE), TRUE).allowed

\* the real path holds one of the patterns as a substring
HoldsBlockedPattern(real_path, patterns) ==
    \E pattern \in patterns : InPath(pattern, real_path)

\* C21: a request whose real host path holds a blocked pattern (a default one
\* or one of the loaded allowlist) is rejected for every group, and no mount
\* returned by validate_mount or validate_additional_mounts has a host path
\* that holds a blocked pattern.
C21_BlockedPatternRejected ==
    LET loaded == load_mount_allowlist(MState)
        patterns == DEFAULT_BLOCKED_PATTERNS
                        \cup (IF loaded.cached.loaded
                              THEN loaded.cached.allowlist.blocked_patterns
                              ELSE {}) IN
    /\ \A mount \in MountRequests, is_main \in BOOLEAN :
           HoldsBlockedPattern(RealPath(mount.host_path), patterns) =>
               ~validate_mount(loaded, mount, is_main).allowed
    /\ mount_result.allowed =>
           ~HoldsBlockedPattern(mount_result.real_host_path, patterns)
    /\ \A i \in 1..Len(validated) :
           ~HoldsBlockedPattern(validated[i].host_path, patterns)

\* a request for a path under the allowed root was rejected for a pattern,
\* with an allowlist under which another path of that root is allowed
C21_Witness ==
    /\ cached_allowlist.loaded
    /\ mount_result.reason = "Path matches blocked pattern"
    /\ validate_mount(MState, Mount("/srv/proj/secrets", None, TRUE), FALSE).allowed
    /\ \E mount \in MountRequests :
           /\ relative_to(RealPath(mount.host_path), RealPath("/srv/proj"))
           /\ validate_mount(MState, mount, TRUE).reason = "Path matches blocked pattern"

\* ------------------------------------------------------------------------
\* Properties of the follow-up messages (SpecWorkers)
\* ------------------------------------------------------------------------
\* group g has a unit of work in progress whose container is registered
\* with the mailbox of folder f
HasRegisteredRun(g, f) ==
    \/ \E run \in BagToSet(running) : run.chat_id = g /\ run.worker = f
    \/ \E i \in 1..Len(ready) :
          IsResume(ready[i]) /\ ready[i].chat_id = g /\ ready[i].worker = f

\* C22: send_message returns true only for a group that has a unit of work
\* in progress with a registered worker, and then exactly one follow-up
\* file is written, to that worker's input mailbox, and nothing else
\* changes; when it returns false no file is written and the message
\* loop's fallback enqueue_message_check is the only effect.
C22_FollowUpOnlyToRegisteredWorker ==
    [][/\ send_result' = "true" =>
            \E g \in Groups :
                /\ HasRegisteredRun(g, GroupFolder[g])
                /\ QState' = [Popped EXCEPT !.input_files[GroupFolder[g]] = @ + 1]
       /\ send_result' = "false" =>
            /\ input_files' = input_files
            /\ \E g \in Groups : QState' = enqueue_message_check(Popped, g)]_vars

\* a follow-up was delivered while another file was still unread
C22_Witness == send_result = "true" /\ \E f \in GroupFolders : input_files[f] = 2

\* a follow-up was refused for a group whose run had not registered a worker
C22_WitnessRefused ==
    /\ send_result = "false"
    /\ \E g \in Groups : active[g] /\ group_folder[g] = None /\ pending_messages[g]

\* ------------------------------------------------------------------------
\* Properties of the waiting list (SpecWaiting)
\* ------------------------------------------------------------------------
\* the runs a step that ran the oldest handle has created
Created == Count(Appended, IsStart)

\* C23: the completion of one unit of work starts at most as many new
\* units as there are free slots; with the cap reached and two or more
\* groups on the waiting list, one completion starts the pending work of
\* only the oldest waiting group and leaves the others on the list.
C23_CompletionFillsFreeSlots ==
    [][RunEnds(MaxWaitingWork) =>
          /\ Created <= MAX_CONCURRENT_CONTAINERS - active_count'
          /\ (active_count = MAX_CONCURRENT_CONTAINERS /\ Len(waiting) >= 2) =>
                /\ Len(waiting') >= Len(waiting) - 1
                /\ \A i \in 1..Len(Appended) :
                      IsStart(Appended[i]) =>
                          Appended[i].chat_id \in {Head(ready).chat_id, Head(waiting)}
      ]_vars

\* group g has work queued in its state
HasPending(g) == pending_messages[g] \/ pending_tasks[g] # <<>>

\* C24: the waiting list is served in FIFO order: while A stands before B
\* on the waiting list with pending work, no step creates a run for B
\* unless it has created a run for A first (runs begin in the order in
\* which they are created).
C24_WaitingListFifo ==
    [][ntodo > 0 =>
          \A i, j \in 1..Len(waiting) :
              (i < j /\ HasPending(waiting[i]) /\ HasPending(waiting[j])) =>
                  \A k \in 1..Len(Appended) :
                      (IsStart(Appended[k]) /\ Appended[k].chat_id = waiting[j]) =>
                          \E m \in 1..(k - 1) :
                              /\ IsStart(Appended[m])
                              /\ Appended[m].chat_id = waiting[i]
      ]_vars

\* ------------------------------------------------------------------------
\* The entries of the waiting list (SpecWaiting)
\* ------------------------------------------------------------------------
\* C37: every group on the waiting list is there once, has no unit of work
\* in progress and has pending work (a queued task or the pending message
\* flag), and a group is taken off the list when its work is started
C37_WaitingListEntries ==
    /\ [](\A i \in 1..Len(waiting) :
            /\ \A j \in 1..Len(waiting) : waiting[j] = waiting[i] => j = i
            /\ InProgress(waiting[i]) = 0
            /\ HasPending(waiting[i]))
    /\ [][ntodo > 0 =>
            \A k \in 1..Len(Appended) :
                IsStart(Appended[k]) => Appended[k].chat_id \notin Range(waiting')]_vars

\* ------------------------------------------------------------------------
\* Liveness of the waiting list (SpecFair)
\* ------------------------------------------------------------------------
\* a run for group g has been created or has begun
WorkStarted(g) ==
    \/ InProgress(g) > 0
    \/ \E i \in 1..Len(ready) : IsStart(ready[i]) /\ ready[i].chat_id = g

\* C25: when every unit of work terminates and shutdown is not called,
\* every group placed on the waiting list eventually has its pending work
\* started, even if the active groups keep receiving enqueue calls.
C25_NoStarvation ==
    \A g \in Groups : (g \in Range(waiting) /\ HasPending(g)) ~> WorkStarted(g)

\* ------------------------------------------------------------------------
\* Properties of the counter and of the per-group associations
\* ------------------------------------------------------------------------
\* the active counter is the number of runs in progress
CounterIsExact == active_count = TotalInProgress /\ active_count >= 0

\* a step leaves the flag and the associations of group g as the finally
\* block sets them
Clears(g) ==
    /\ ~active'[g]
    /\ process'[g] = None /\ container_name'[g] = None /\ group_folder'[g] = None

\* the flag of a group is set while a run of it is in progress, and so are
\* the associations a run in progress has registered
KeptWhileInProgress ==
    \A g \in Groups :
        /\ InProgress(g) > 0 => active[g]
        /\ HasRegisteredRun(g, GroupFolder[g]) => group_folder[g] = GroupFolder[g]

\* C26: the active counter always equals the number of units of work in
\* progress and is never negative; when a run ends (whatever its work did)
\* the counter is decremented once, the group's active flag is false and
\* its process handle, container name and group folder are cleared; and
\* the flag and the handle of a group are never cleared while a unit of
\* work for it is still in progress.
C26_CounterAndAssociations ==
    /\ [](CounterIsExact /\ KeptWhileInProgress)
    /\ [][RunEnds(MaxWorkersWork) =>
             /\ active_count' = IF IsResume(Head(ready)) THEN active_count - 1
                                ELSE active_count
             /\ Clears(Head(ready).chat_id)]_vars

\* ------------------------------------------------------------------------
\* Properties of the work that raises (SpecRetry)
\* ------------------------------------------------------------------------
\* a step in which the run at the head of the ready queue ends as outcome
EndsAs(outcome) ==
    \/ RunResume(outcome, MaxRetryWork)
    \/ RunStartToEnd(outcome, MaxRetryWork)

\* the queue as the run at the head of the ready queue sees it at its await
AtAwait ==
    IF IsResume(Head(ready)) THEN Popped
    ELSE run_begin(Popped, Head(ready).kind, Head(ready).chat_id)

\* the drain step has run for g after a step that released g's slot: g's
\* own pending work was started, or else the waiting list was served if a
\* slot was free
Drained(g) ==
    shutting_down \/
    IF AtAwait.pending_tasks[g] # <<>> \/ AtAwait.pending_messages[g]
    THEN Created = 1 /\ Appended[Len(Appended)].chat_id = g
    ELSE \/ waiting = <<>>
         \/ active_count' >= MAX_CONCURRENT_CONTAINERS
         \/ Len(waiting') < Len(waiting)

\* C27: a task run whose work raises schedules no retry and leaves the
\* group's retry_count unchanged; a message-check callback that raises is
\* handled exactly like one that returns false (retry_count incremented,
\* backoff retry scheduled); in both cases the run ends normally: the slot
\* is released and the drain step runs.
C27_RaiseIsContained ==
    [][/\ \A g \in Groups :
            (EndsAs("raise") /\ Head(ready).kind = "task" /\ Head(ready).chat_id = g) =>
                /\ timers' = timers /\ retry_count' = retry_count
                /\ Count(Appended, IsRetry) = 0
                /\ ~active'[g] /\ active_count' = AtAwait.active_count - 1
                /\ Drained(g)
       /\ \A g \in Groups :
            (EndsAs("raise") /\ Head(ready).kind = "messages" /\ Head(ready).chat_id = g) =>
                /\ [QState' EXCEPT !.last_error = "none"]
                     = [run_for_group_end(AtAwait, g, "false") EXCEPT !.last_error = "none"]
                /\ retry_count'[g] = (retry_count[g] + 1) % (MAX_RETRIES + 1)
                /\ retry_count'[g] > 0 => BagCardinality(timers') = BagCardinality(timers) + 1
                /\ ~active'[g] /\ active_count' = AtAwait.active_count - 1
                /\ Drained(g)
      ]_vars

\* a task run raised in a group whose message check had failed before: the
\* retry count is still what the failure left
C27_Witness ==
    last_error = "task_error" /\ \E g \in Groups : retry_count[g] > 0

\* a message-check callback raised
C27_WitnessMessages ==
    last_error = "process_error" /\ \E g \in Groups : retry_count[g] > 0

\* ------------------------------------------------------------------------
\* Properties of the supervisor of one worker (SpecRun)
\* ------------------------------------------------------------------------
\* once the read has timed out the worker is not running any more and the
\* result is the timeout envelope, whatever was streamed before
TimeoutIsReported ==
    reader = "cancelled" => proc # "running" /\ final_output = TimedOut

\* C29: if the timeout expires before the worker's stream ends, the worker
\* is killed and the run returns the error envelope that reports the
\* timeout, whatever envelopes were streamed before; and a run never lasts
\* longer than the timeout plus the bounded wait for the process exit.
C29_TimeoutBoundsTheRun ==
    /\ TimeoutIsReported
    /\ run_pc = "returned" => clock <= CONTAINER_TIMEOUT + PROCESS_WAIT

\* C30: once a worker has been spawned, every way the run can end leaves
\* the process exited and waited for, or killed: control never returns to
\* the caller with the process running and unsupervised.
C30_ProcessIsReaped ==
    (run_pc \in {"returned", "raised"} /\ proc # None) =>
        \/ proc = "exited" /\ proc_waited
        \/ proc = "killed"

\* the read-only decision the validation rules give for request mount of a
\* group, under the loaded allowlist
DecidedReadOnly(allowlist, mount, is_main) ==
    LET roots == allowed_root_indices(RealPath(mount.host_path), allowlist.allowed_roots)
        allowed_root == allowlist.allowed_roots[Min(roots)] IN
    ~(/\ mount.readonly = FALSE
      /\ allowed_root.allow_read_write
      /\ (is_main \/ ~allowlist.non_main_read_only))

\* C40: validate_additional_mounts returns each allowed mount with the
\* read-only decision of validate_mount: read-write exactly when the request
\* asked for read-write, the matched root has allow_read_write and the group
\* is main or non_main_read_only is off; read-only in every other case
C40_ReadOnlyDecision ==
    [][\A mounts \in MountLists, is_main \in BOOLEAN :
        ValidateAdditionalMounts(mounts, is_main) =>
            LET loaded == load_mount_allowlist(MState)
                IsAllowed(m) == validate_mount(loaded, m, is_main).allowed
                allowed == SelectSeq(mounts, IsAllowed) IN
            /\ Len(validated') = Len(allowed)
            /\ \A k \in 1..Len(allowed) :
                   /\ validate_mount(loaded, allowed[k], is_main).effective_readonly
                          = (IF DecidedReadOnly(loaded.cached.allowlist, allowed[k], is_main)
                             THEN "True" ELSE "False")
                   /\ validated'[k].readonly
                          = DecidedReadOnly(loaded.cached.allowlist, allowed[k], is_main)
                   /\ (~is_main /\ loaded.cached.allowlist.non_main_read_only)
                          => validated'[k].readonly]_vars

\* ------------------------------------------------------------------------
\* The stdio protocol between the worker and the supervisor (SpecProtocol)
\* ------------------------------------------------------------------------
\* the last line of the last result block the worker has written
LastWritten == stream[Len(stream) - 1]

\* C39: the marker lines written by the worker's write_output are the marker
\* lines the supervisor's parser recognizes, so that a run whose reader has
\* read to the end the stdout of a worker that wrote a result block returns
\* the envelope of the last block and not 'No output received'
C39_MarkersAgree ==
    (run_pc = "returned" /\ reader = "returned" /\ stream # <<>>) =>
        /\ write_output(LastWritten) = <<OUTPUT_START, json_dumps(LastWritten), OUTPUT_END>>
        /\ final_output = Envelope(json_loads(<<LastWritten>>))
        /\ final_output # NoOutput

\* ------------------------------------------------------------------------
\* Properties of the scheduler's hand-off and of its runs (SpecJobs)
\* ------------------------------------------------------------------------
\* job i is in the store with status active
StoredActive(i) == scheduled_tasks[i] # NoJob /\ scheduled_tasks[i].status = "active"

\* C31: a poll pass hands a job to enqueue_task only if, at the hand-off, the
\* job is in the store with status active; of any list of due jobs queried
\* earlier, the jobs paused or cancelled since then are skipped
C31_HandOffOnlyIfStillActive ==
    /\ [](\A due_tasks \in SUBSET JobIds :
            hand_off(IState, due_tasks) = {i \in due_tasks : StoredActive(i)})
    /\ [][SchedulerPoll =>
            \A r \in task_runs' \ task_runs :
                /\ StoredActive(r.task.id)
                /\ r.task = TaskObject(r.task.id)
                /\ r.task.id \in get_due_tasks(IState)]_vars

\* a poll pass has handed off a job, and the store holds a paused job whose
\* next_run has passed: the hand-off skips it
C31_Witness ==
    /\ task_runs # {}
    /\ \E i \in LiveJobs :
           /\ scheduled_tasks[i].status = "paused"
           /\ scheduled_tasks[i].next_run # NoTime
           /\ scheduled_tasks[i].next_run <= now
           /\ hand_off(IState, {i}) = {}

\* C32: every execution of a job's work, including one that ends in error
\* (worker error, exception, or the job's group no longer registered), ends
\* by writing a run-log entry and storing a recomputed next_run, so that the
\* job is due afterwards only if its new next_run has passed
C32_RunEndsWithLogAndNextRun ==
    [][\A r \in task_runs :
        (RunFinishes(r) /\ scheduled_tasks[r.task.id] # NoJob) =>
            /\ \E status \in {"success", "error"} :
                   task_run_logs' = log_task_run(task_run_logs, r.task.id, status)
            /\ scheduled_tasks'[r.task.id].next_run = next_run_after(r.task, now)
            /\ r.task.id \in get_due_tasks([IState EXCEPT !.tasks = scheduled_tasks'])
                   => next_run_after(r.task, now) <= now]_vars

\* the changes of status the store allows
StatusMoves == {<<"active", "paused">>, <<"paused", "active">>, <<"active", "completed">>}

\* C34: the status of a job changes only from active to paused, from paused
\* to active, and from active to completed (a once job firing): a completed
\* job never becomes active or paused, and a paused job never completed
C34_StatusTransitions ==
    [][\A i \in JobIds :
        (/\ scheduled_tasks[i] # NoJob
         /\ scheduled_tasks'[i] # NoJob
         /\ scheduled_tasks'[i].status # scheduled_tasks[i].status) =>
            /\ <<scheduled_tasks[i].status, scheduled_tasks'[i].status>> \in StatusMoves
            /\ scheduled_tasks'[i].status = "completed" =>
                   scheduled_tasks[i].schedule_type = "once"]_vars

\* a step in which the run r begins the work of its job (the worker is
\* started)
WorkBegins(r) == RunTaskBegin(r) /\ TaskRun(r.task, "running") \in task_runs'

\* C35: a job is executed at most once per due occurrence: polls that see
\* the job as due while a run of it is queued or in progress cause no
\* further execution, so a run begins the work of a stored job only while
\* the occurrence it was handed off for is still due (next_run not moved by
\* an earlier run), and the work of a once job begins at most once
C35_OncePerDueOccurrence ==
    [][\A r \in task_runs :
        (WorkBegins(r) /\ scheduled_tasks[r.task.id] # NoJob) =>
            /\ scheduled_tasks[r.task.id].status # "completed"
            /\ scheduled_tasks[r.task.id].next_run # NoTime
            /\ scheduled_tasks[r.task.id].next_run <= now]_vars

\* C36: a job paused or cancelled after its hand-off and before its work has
\* started is not executed, and the run of a cancelled job writes neither a
\* run-log entry nor a job update for the deleted id
C36_PausedOrCancelledNotExecuted ==
    [][\A r \in task_runs :
        /\ WorkBegins(r) =>
               /\ scheduled_tasks[r.task.id] # NoJob
               /\ scheduled_tasks[r.task.id].status # "paused"
        /\ (RunFinishes(r) /\ scheduled_tasks[r.task.id] = NoJob) =>
               UNCHANGED <<task_run_logs, scheduled_tasks>>]_vars

\* ------------------------------------------------------------------------
\* Properties of the poll loops and of the mailbox (SpecLoops)
\* ------------------------------------------------------------------------
\* the scheduler loops that will make another pass, and the watcher loops
\* that are in a pass or will make another one
IteratingSchedulerLoops == IF scheduler_running THEN scheduler_loops ELSE {}
IteratingIpcLoops ==
    {l \in LoopIds : \/ ipc_loops[l].pc = "handling"
                     \/ ipc_loops[l].pc = "sleeping" /\ ipc_watcher_running}

\* C38: for any sequence of start and stop calls, at most one scheduler poll
\* loop and at most one IPC poll loop is iterating at any time
C38_OneLoopEach ==
    /\ Cardinality(IteratingSchedulerLoops) <= 1
    /\ Cardinality(IteratingIpcLoops) <= 1

\* C33: each request file is processed at most once (a file whose parsing or
\* handling raised is not processed again), and after a pass every file that
\* was listed in the directory has been deleted or moved to the errors
\* directory under a name prefixed with its source group
C33_EachFileOnce ==
    /\ \A f \in IpcFileIds : ipc_processed[f] <= 1
    /\ \A l \in LoopIds :
           ipc_loops[l].pc = "sleeping" =>
               \A f \in ipc_loops[l].seen :
                   \/ ipc_files[f].at = "deleted"
                   \/ ipc_files[f].at = "errors" /\ ipc_files[f].name = <<MailboxGroup, f>>

====
